---- MODULE Spec2Model ----
(***************************************************************************)
(* A model of the roomba-player control core:                              *)
(*   - RoombaOI (roomba.py): command encoder, sensor-stream parser,        *)
(*     telemetry snapshot;                                                 *)
(*   - handle_control_message (ws.py): command dispatcher and bumper guard;*)
(*   - OdometryEstimator (odometry.py): pose integration and the           *)
(*     step-and-slide collision clamp.                                     *)
(*                                                                         *)
(* Numbers.  Bytes are integers 0..255.  The estimator's floats are        *)
(* modelled on a grid: lengths in 1/PosScale mm, angles in 1/AngScale      *)
(* degree, each result rounded to the grid (see the odometry section).     *)
(***************************************************************************)
EXTENDS Integers, Sequences, FiniteSets, TLC

VARIABLES
    \* ---- RoombaOI ----
    serial_open,        \* self._serial is set and open (the `connected` property)
    wire,               \* the payloads the last operation wrote to the serial
                        \* port, in the order written
    telemetry,          \* self._telemetry
    stream_buffer,      \* self._stream_buffer
    odo,                \* the OdometryEstimator: its attributes, the history
                        \* events of its last operation (history), the record
                        \* of its last clamp loop (run), the encoder deltas of
                        \* its last update (enc), its operation count (ops)
    pose,               \* the pose the last update_from_telemetry,
                        \* apply_external_pose or get_pose call returned
    call,               \* the last call that changed the estimator: its name
                        \* (op) and arguments, and whether get_pose has been
                        \* called since (got)
    rx,                 \* the serial input: the bytes the robot sends (bytes)
                        \* and how many of them the reader has read (pos)
    rd,                 \* the stream reader thread: its position and locals
    now,                \* the clock read by _now_iso() / time.monotonic()
    last_stream_update, \* self._last_stream_update_monotonic
    last_stream_start,  \* self._last_stream_start_monotonic
    stream_packet_ids,  \* self._stream_packet_ids
    watchdog,           \* the ensure_sensor_stream calls so far: a bit that
                        \* flips at each call (turn) and the clock values of
                        \* the last two subscriptions it issued, latest
                        \* first (issued)
    \* ---- the threads of the service ----
    threads,            \* the callers of the estimator: who holds its lock
                        \* (lock), where each caller is (pc), the operation
                        \* it runs (op), how its sink call ended (outcome),
                        \* how the operation ended (returned), the number of
                        \* operations started and the snapshot applied last
    journal,            \* the JsonlHistoryStore: the lines of its file (one
                        \* record each), the last operation on it (op), the
                        \* number of operations (ops) and what last_pose
                        \* returned last (read)
    detector,           \* the ArucoService: its input queue and its worker
    plans,              \* the PlanManager: the plan in memory
    push,               \* the telemetry push loop of one subscriber: where
                        \* it is (pc), its iteration (iter), the iteration
                        \* in which the watchdog raised last (raised), those
                        \* whose watchdog call and send are done (watched,
                        \* sent)
    writers,            \* the threads inside RoombaOI.write: who holds
                        \* self._lock, the command of each call (cmd), its
                        \* number (id), how many of its bytes are written
                        \* (pos), how it ended (result), and the bytes on
                        \* the serial link, each with the call it is from
    increments,         \* the signed increments of the packets 19 (distance)
                        \* and 20 (angle) applied so far, oldest first
    readers,            \* the stream reader threads: the stop flag, the
                        \* thread self._stream_thread refers to, and where
                        \* each thread that was started is
    \* ---- callers ----
    req,                \* the control message handled last
    drv,                \* the arguments of the last RoombaOI.drive call
    ack,                \* what handle_control_message returned (or raised) last
    snap                \* the last get_telemetry_snapshot result, with its context

watchVars == <<last_stream_start, stream_packet_ids, watchdog>>
driverVars == <<serial_open, wire, telemetry, stream_buffer, rx, rd, now,
                last_stream_update, watchVars>>
callerVars == <<req, drv, ack, snap>>
odoVars == <<odo, pose, call>>
linkVars == <<push, writers, readers, increments>>
sideVars == <<threads, journal, detector, plans, linkVars>>

----------------------------------------------------------------------------
(* Bounds of the model *)

\* the clock stops advancing here
MaxTime == 2
\* the most bytes one read of the serial link returns
MaxChunk == 3

----------------------------------------------------------------------------
(* roomba.py: constants *)

CMD_START == 128
CMD_SAFE == 131
CMD_FULL == 132
CMD_CLEAN == 135
CMD_DRIVE == 137
CMD_STREAM == 148
CMD_PAUSE_RESUME_STREAM == 150
CMD_DOCK == 143

RADIUS_STRAIGHT == 32768
RADIUS_INPLACE_CW == -1
RADIUS_INPLACE_CCW == 1

STREAM_HEADER == 19
STREAM_PACKETS_DEFAULT == <<7, 8, 9, 10, 11, 12, 19, 20, 21, 25, 26, 34, 43, 44>>

\* _PACKET_SIZE.get(packet_id): 0 stands for None (unknown id)
PACKET_SIZE(packet_id) ==
    CASE packet_id \in {7, 8, 9, 10, 11, 12, 21, 34} -> 1
      [] packet_id \in {19, 20, 25, 26, 43, 44} -> 2
      [] OTHER -> 0

\* _CHARGING_STATE.get(code, f"unknown_{code}"); the code of an unknown state
\* stays readable in charging_state_code
CHARGING_STATE(code) ==
    CASE code = 0 -> "not_charging"
      [] code = 1 -> "reconditioning"
      [] code = 2 -> "full_charging"
      [] code = 3 -> "trickle_charging"
      [] code = 4 -> "waiting"
      [] code = 5 -> "charging_fault"
      [] OTHER -> "unknown"

----------------------------------------------------------------------------
(* Helpers: Python built-ins *)

Min(a, b) == IF a <= b THEN a ELSE b
Max(a, b) == IF a >= b THEN a ELSE b
Abs(a) == IF a < 0 THEN -a ELSE a

\* bit n of a byte: bool(bits & (1 << n))
Bit(bits, n) == ((bits \div (2 ^ n)) % 2) = 1

\* int.from_bytes(data, "big", signed=False) for 1 or 2 bytes
FromBytesUnsigned(data) ==
    IF Len(data) = 1 THEN data[1] ELSE data[1] * 256 + data[2]

\* int.from_bytes(data, "big", signed=True) for 2 bytes
FromBytesSigned(data) ==
    LET u == FromBytesUnsigned(data)
    IN  IF u >= 32768 THEN u - 65536 ELSE u

RECURSIVE SumSeq(_)
SumSeq(s) == IF s = <<>> THEN 0 ELSE s[1] + SumSeq(Tail(s))

----------------------------------------------------------------------------
(* roomba.py: RoombaOI, the command path.                                  *)
(* The methods are operators on the record d of the fields they touch;     *)
(* t is the clock value a call reads.                                      *)

\* RoombaOI.__init__: self._telemetry
InitTelemetry ==
    [ timestamp |-> 0, battery_pct |-> 0, state |-> "disconnected",
      bumper |-> FALSE, bump_left |-> FALSE, bump_right |-> FALSE,
      wheel_drop_left |-> FALSE, wheel_drop_right |-> FALSE,
      wheel_drop_caster |-> FALSE, wall_seen |-> FALSE,
      cliff_left |-> FALSE, cliff_front_left |-> FALSE,
      cliff_front_right |-> FALSE, cliff_right |-> FALSE,
      dock_visible |-> FALSE, charging_source_home_base |-> FALSE,
      charging_source_internal |-> FALSE, roomba_connected |-> FALSE,
      battery_charge_mah |-> 0, battery_capacity_mah |-> 0,
      charging_state_code |-> 0, distance_mm |-> 0, angle_deg |-> 0,
      total_distance_mm |-> 0, total_angle_deg |-> 0,
      left_encoder_counts |-> 0, right_encoder_counts |-> 0 ]

\* _int16_bytes(value)
int16_bytes_low_first(value) ==
    LET v == IF value < 0 THEN 65536 + value ELSE value
    IN  <<v % 256, (v \div 256) % 256>>

int16_bytes(value) ==
    LET v == IF value < 0 THEN 65536 + value ELSE value
    IN  <<(v \div 256) % 256, v % 256>>

\* RoombaOI.connect
connect(d, t) ==
    IF d.serial_open THEN d
    ELSE [d EXCEPT !.serial_open = TRUE,
                   !.telemetry = [@ EXCEPT !.roomba_connected = TRUE,
                                           !.timestamp = t]]

\* RoombaOI.write: an unconnected driver connects first
write(d, payload, t) ==
    LET c == IF ~d.serial_open THEN connect(d, t) ELSE d
    IN  [c EXCEPT !.wire = Append(@, payload)]

start(d, t) == write(d, <<CMD_START>>, t)
safe(d, t) == write(d, <<CMD_SAFE>>, t)
full(d, t) == write(d, <<CMD_FULL>>, t)
clean(d, t) == write(d, <<CMD_CLEAN>>, t)
dock(d, t) == write(d, <<CMD_DOCK>>, t)

\* the saturation of RoombaOI.drive
clamp_velocity(velocity) == Max(-500, Min(500, velocity))

clamp_radius(radius) ==
    IF radius \notin {RADIUS_STRAIGHT, RADIUS_INPLACE_CW, RADIUS_INPLACE_CCW}
    THEN Max(-2000, Min(2000, radius))
    ELSE radius

\* RoombaOI.drive
drive(d, velocity, radius, t) ==
    LET v == clamp_velocity(velocity)
        r == clamp_radius(radius)
        command == <<CMD_DRIVE>> \o int16_bytes(v) \o int16_bytes(r)
    IN  write([d EXCEPT !.drv = <<velocity, radius>>], command, t)

\* RoombaOI.stop
stop(d, t) == drive(d, 0, 0, t)

\* RoombaOI.start_sensor_stream, up to the write (packet_ids is never empty
\* here); the reader thread is started by the action that uses it
start_sensor_stream_write(d, packet_ids, t) ==
    write(d, <<CMD_STREAM, Len(packet_ids)>> \o packet_ids, t)

\* RoombaOI.stop_sensor_stream, its write: the stream is paused when the
\* link is open
stop_sensor_stream_write(d, t) ==
    IF d.serial_open THEN write(d, <<CMD_PAUSE_RESUME_STREAM, 0>>, t) ELSE d

\* RoombaOI.close
close(d, t) ==
    LET s == stop_sensor_stream_write(d, t)
    IN  [s EXCEPT !.serial_open = FALSE,
                  !.telemetry = [@ EXCEPT !.roomba_connected = FALSE,
                                          !.state = "disconnected",
                                          !.timestamp = t]]

\* the defaults of RoombaOI.ensure_sensor_stream, in seconds (the unit of
\* the clock where the watchdog is concerned)
MAX_STALE_SEC == 3
RESTART_COOLDOWN_SEC == 2

\* RoombaOI.ensure_sensor_stream: should_restart
should_restart(thread_alive, last_update, last_start, t, max_stale_sec) ==
    LET stale == last_update > 0 /\ (t - last_update) > max_stale_sec
        no_data_yet == last_update = 0 /\ (t - last_start) > max_stale_sec
    IN  (~thread_alive) \/ stale \/ no_data_yet

\* RoombaOI.ensure_sensor_stream: the test in front of the restart
in_cooldown_never(last_start, t, restart_cooldown_sec) == FALSE

in_cooldown(last_start, t, restart_cooldown_sec) ==
    last_start # 0 /\ (t - last_start) < restart_cooldown_sec

\* RoombaOI.ensure_sensor_stream: TRUE when the call reaches
\* start_sensor_stream
ensure_restarts(connected, thread_alive, last_update, last_start, t, max_stale_sec, restart_cooldown_sec) ==
    /\ connected
    /\ should_restart(thread_alive, last_update, last_start, t, max_stale_sec)
    /\ ~in_cooldown(last_start, t, restart_cooldown_sec)

\* RoombaOI.get_telemetry_snapshot: a copy taken under the telemetry lock,
\* then roomba_connected overwritten with the live link state
get_telemetry_snapshot(d) ==
    [d.telemetry EXCEPT !.roomba_connected = d.serial_open]

----------------------------------------------------------------------------
(* roomba.py: RoombaOI, the sensor stream *)

\* the tail of RoombaOI._apply_sensor_packet: battery_pct from charge and
\* capacity; int() of the non-negative quotient truncates
battery_update(tel) ==
    LET capacity == tel.battery_capacity_mah
        charge == tel.battery_charge_mah
    IN  IF capacity > 0
        THEN [tel EXCEPT !.battery_pct =
                 Max(0, Min(100, (charge * 100) \div capacity))]
        ELSE tel

\* a decoder that keeps the latest increment of packet 19 as the total
apply_sensor_packet_total_is_latest(tel, packet_id, data) ==
    CASE packet_id = 19 ->
           [tel EXCEPT !.distance_mm = FromBytesSigned(data),
                       !.total_distance_mm = FromBytesSigned(data)]
      [] packet_id = 20 ->
           [tel EXCEPT !.angle_deg = FromBytesSigned(data),
                       !.total_angle_deg = @ + FromBytesSigned(data)]
      [] OTHER -> tel

\* RoombaOI._apply_sensor_packet: one packet, applied under the telemetry lock
apply_sensor_packet(tel, packet_id, data) ==
    LET bits == data[1]
        upd ==
          CASE packet_id = 7 ->
                 [tel EXCEPT !.bump_right = Bit(bits, 0),
                             !.bump_left = Bit(bits, 1),
                             !.wheel_drop_right = Bit(bits, 2),
                             !.wheel_drop_left = Bit(bits, 3),
                             !.wheel_drop_caster = Bit(bits, 4),
                             !.bumper = Bit(bits, 1) \/ Bit(bits, 0)]
            [] packet_id = 8 -> [tel EXCEPT !.wall_seen = (data[1] # 0)]
            [] packet_id = 9 -> [tel EXCEPT !.cliff_left = (data[1] # 0)]
            [] packet_id = 10 -> [tel EXCEPT !.cliff_front_left = (data[1] # 0)]
            [] packet_id = 11 -> [tel EXCEPT !.cliff_front_right = (data[1] # 0)]
            [] packet_id = 12 -> [tel EXCEPT !.cliff_right = (data[1] # 0)]
            [] packet_id = 19 ->
                 [tel EXCEPT !.distance_mm = FromBytesSigned(data),
                             !.total_distance_mm = @ + FromBytesSigned(data)]
            [] packet_id = 20 ->
                 [tel EXCEPT !.angle_deg = FromBytesSigned(data),
                             !.total_angle_deg = @ + FromBytesSigned(data)]
            [] packet_id = 21 ->
                 [tel EXCEPT !.charging_state_code = data[1],
                             !.state = CHARGING_STATE(data[1])]
            [] packet_id = 25 ->
                 [tel EXCEPT !.battery_charge_mah = FromBytesUnsigned(data)]
            [] packet_id = 26 ->
                 [tel EXCEPT !.battery_capacity_mah = FromBytesUnsigned(data)]
            [] packet_id = 34 ->
                 [tel EXCEPT !.charging_source_internal = Bit(bits, 0),
                             !.charging_source_home_base = Bit(bits, 1),
                             !.dock_visible = Bit(bits, 1)]
            [] packet_id = 43 ->
                 [tel EXCEPT !.left_encoder_counts = FromBytesUnsigned(data)]
            [] packet_id = 44 ->
                 [tel EXCEPT !.right_encoder_counts = FromBytesUnsigned(data)]
            [] OTHER -> tel
    IN  battery_update(upd)

\* a loop that steps over an id it does not know
packet_at_skips_unknown(payload, i) ==
    /\ i < Len(payload)
    /\ i + 1 + PACKET_SIZE(payload[i + 1]) <= Len(payload)

\* RoombaOI._apply_stream_payload, the loop test at index i (0-based, as in
\* the code): TRUE when a whole known packet starts at i
packet_at(payload, i) ==
    /\ i < Len(payload)
    /\ PACKET_SIZE(payload[i + 1]) # 0
    /\ i + 1 + PACKET_SIZE(payload[i + 1]) <= Len(payload)

packet_data(payload, i) ==
    SubSeq(payload, i + 2, i + 1 + PACKET_SIZE(payload[i + 1]))

\* RoombaOI._apply_stream_payload run without interruption from index i:
\* the packets in order, then the timestamp refresh unless the loop returned
\* early on an unknown id or a truncated packet
RECURSIVE apply_stream_payload(_, _, _, _)
apply_stream_payload(tel, payload, i, t) ==
    IF i >= Len(payload) THEN [tel EXCEPT !.timestamp = t]
    ELSE IF ~packet_at(payload, i) THEN tel
    ELSE apply_stream_payload(
             apply_sensor_packet(tel, payload[i + 1], packet_data(payload, i)),
             payload, i + 1 + PACKET_SIZE(payload[i + 1]), t)

\* a watchdog for which every frame counts as a valid one
payload_complete_always(payload, i) == TRUE

\* RoombaOI._apply_stream_payload: TRUE when the loop from index i runs to the
\* end of the payload, so that the lines after it are reached
RECURSIVE payload_complete(_, _)
payload_complete(payload, i) ==
    IF i >= Len(payload) THEN TRUE
    ELSE IF ~packet_at(payload, i) THEN FALSE
    ELSE payload_complete(payload, i + 1 + PACKET_SIZE(payload[i + 1]))

\* sum(frame) & 0xFF
checksum_ok_never_checked(frame) == TRUE

checksum_ok(frame) == (SumSeq(frame) % 256) = 0

\* RoombaOI._consume_stream_buffer run on a whole buffer in one call: the
\* buffer left over, the telemetry and the frames handed to
\* _apply_stream_payload, in order
RECURSIVE consume_stream_buffer(_, _, _, _)
consume_stream_buffer(buffer, tel, applied, t) ==
    IF Len(buffer) < 3
    THEN [buffer |-> buffer, telemetry |-> tel, applied |-> applied]
    ELSE IF buffer[1] # STREAM_HEADER
    THEN consume_stream_buffer(Tail(buffer), tel, applied, t)
    ELSE LET frame_len == buffer[2] + 3
             frame == SubSeq(buffer, 1, frame_len)
             rest == SubSeq(buffer, frame_len + 1, Len(buffer))
         IN  IF Len(buffer) < frame_len
             THEN [buffer |-> buffer, telemetry |-> tel, applied |-> applied]
             ELSE IF ~checksum_ok(frame)
             THEN consume_stream_buffer(rest, tel, applied, t)
             ELSE consume_stream_buffer(
                      rest,
                      apply_stream_payload(tel, SubSeq(frame, 3, frame_len - 1), 0, t),
                      Append(applied, frame), t)

----------------------------------------------------------------------------
(* ws.py: the control dispatcher *)

\* message.get(key, default)
Get(message, key, default) ==
    IF key \in DOMAIN message THEN message[key] ELSE default

\* _normalize_radius
normalize_radius_clamps_special(radius) == Max(-2000, Min(2000, radius))

normalize_radius(radius) ==
    IF radius \in {32768, -1, 1} THEN radius
    ELSE Max(-2000, Min(2000, radius))

\* _guard_drive_with_bumpers: <<velocity, radius, guard_reason>>, with
\* "none" for a guard_reason of None
guard_drive_sides_swapped(snapshot, velocity, radius) ==
    LET bump_left == snapshot.bump_left
        bump_right == snapshot.bump_right
    IN  IF bump_left /\ bump_right THEN
            IF velocity < 0 THEN <<velocity, radius, "none">>
            ELSE <<0, 32768, "both_bumpers_block_forward">>
        ELSE IF bump_left THEN
            IF velocity < 0 THEN <<velocity, radius, "none">>
            ELSE IF radius = 1 THEN <<velocity, radius, "none">>
            ELSE <<0, 32768, "left_bumper_block_forward">>
        ELSE IF bump_right THEN
            IF velocity < 0 THEN <<velocity, radius, "none">>
            ELSE IF radius = -1 THEN <<velocity, radius, "none">>
            ELSE <<0, 32768, "right_bumper_block_forward">>
        ELSE <<velocity, radius, "none">>

guard_drive_with_bumpers(snapshot, velocity, radius) ==
    LET bump_left == snapshot.bump_left
        bump_right == snapshot.bump_right
    IN  IF bump_left /\ bump_right THEN
            IF velocity < 0 THEN <<velocity, radius, "none">>
            ELSE <<0, 32768, "both_bumpers_block_forward">>
        ELSE IF bump_left THEN
            IF velocity < 0 THEN <<velocity, radius, "none">>
            ELSE IF radius = -1 THEN <<velocity, radius, "none">>
            ELSE <<0, 32768, "left_bumper_block_forward">>
        ELSE IF bump_right THEN
            IF velocity < 0 THEN <<velocity, radius, "none">>
            ELSE IF radius = 1 THEN <<velocity, radius, "none">>
            ELSE <<0, 32768, "right_bumper_block_forward">>
        ELSE <<velocity, radius, "none">>

\* str.lower on the texts met in control messages: the upper-case
\* spellings become the lower-case words, everything else is in lower case
\* already
lower(text) ==
    CASE text = "STOP" -> "stop"
      [] text = "FULL" -> "full"
      [] OTHER -> text

\* raise ValueError(error) before any call of the driver: the error is
\* what the caller gets
value_error_after_safe(d, error) ==
    [d |-> [d EXCEPT !.wire = Append(@, <<CMD_SAFE>>)], stream |-> FALSE,
     ack |-> [ok |-> FALSE, error |-> error]]

value_error(d, error) ==
    [d |-> d, stream |-> FALSE, ack |-> [ok |-> FALSE, error |-> error]]

\* the steps of the init branch, any of which may raise an error of the
\* serial port ("none": none does)
InitSteps == <<"connect", "start", "safe", "stream">>

\* the error of the serial port, as the caller gets it
io_error == [ok |-> FALSE, error |-> "serial port error"]

\* the init branch of handle_control_message: connect, start, safe,
\* start_sensor_stream, up to the step that raises; stream tells whether
\* start_sensor_stream went past its write, to _start_stream_reader
handle_init_reader_before_write(d, t, raises) ==
    IF raises = "connect" THEN [d |-> d, stream |-> FALSE, ack |-> io_error]
    ELSE IF raises = "start" THEN
        [d |-> connect(d, t), stream |-> FALSE, ack |-> io_error]
    ELSE IF raises = "safe" THEN
        [d |-> start(connect(d, t), t), stream |-> FALSE, ack |-> io_error]
    ELSE IF raises = "stream" THEN
        [d |-> safe(start(connect(d, t), t), t), stream |-> TRUE,
         ack |-> io_error]
    ELSE
        LET d4 == start_sensor_stream_write(
                      safe(start(connect(d, t), t), t),
                      STREAM_PACKETS_DEFAULT, t)
        IN  [d |-> d4, stream |-> TRUE,
             ack |-> [ok |-> TRUE, action |-> "init",
                      connected |-> d4.serial_open]]

handle_init(d, t, raises) ==
    IF raises = "connect" THEN [d |-> d, stream |-> FALSE, ack |-> io_error]
    ELSE IF raises = "start" THEN
        [d |-> connect(d, t), stream |-> FALSE, ack |-> io_error]
    ELSE IF raises = "safe" THEN
        [d |-> start(connect(d, t), t), stream |-> FALSE, ack |-> io_error]
    ELSE IF raises = "stream" THEN
        [d |-> safe(start(connect(d, t), t), t), stream |-> FALSE,
         ack |-> io_error]
    ELSE
        LET d4 == start_sensor_stream_write(
                      safe(start(connect(d, t), t), t),
                      STREAM_PACKETS_DEFAULT, t)
        IN  [d |-> d4, stream |-> TRUE,
             ack |-> [ok |-> TRUE, action |-> "init",
                      connected |-> d4.serial_open]]

\* handle_control_message(message, roomba): the driver after the call, the
\* ack returned (ok = FALSE with the error text when it raised) and whether
\* start_sensor_stream ran, which starts the reader thread.  Only the drive
\* branch calls get_telemetry_snapshot (in the bumper guard).
handle_control_message(message, d, t) ==
    LET action == lower(Get(message, "action", ""))
    IN  IF action = "" THEN
            value_error(d, "Missing action in message.")
        ELSE IF action = "ping" THEN
            [d |-> d, stream |-> FALSE,
             ack |-> [ok |-> TRUE, action |-> "pong", connected |-> d.serial_open]]
        ELSE IF action = "init" THEN
            handle_init(d, t, "none")
        ELSE IF action = "mode" THEN
            LET mode == lower(Get(message, "value", "safe"))
            IN  IF mode \notin {"safe", "full"} THEN
                    value_error(d, "mode value must be safe or full.")
                ELSE
                    LET d1 == IF mode = "safe" THEN safe(d, t) ELSE full(d, t)
                    IN  [d |-> d1, stream |-> FALSE,
                         ack |-> [ok |-> TRUE, action |-> action, mode |-> mode,
                                  connected |-> d1.serial_open]]
        ELSE IF action = "drive" THEN
            LET g == guard_drive_with_bumpers(
                         get_telemetry_snapshot(d),
                         Get(message, "velocity", 0), Get(message, "radius", 0))
                d1 == drive(d, g[1], g[2], t)
                response == [ok |-> TRUE, action |-> action,
                             velocity |-> Max(-500, Min(500, g[1])),
                             radius |-> normalize_radius(g[2]),
                             connected |-> d1.serial_open]
            IN  [d |-> d1, stream |-> FALSE,
                 ack |-> IF g[3] # "none"
                         THEN [ok |-> TRUE, action |-> action,
                               velocity |-> response.velocity,
                               radius |-> response.radius,
                               connected |-> response.connected,
                               guarded |-> TRUE, guard_reason |-> g[3]]
                         ELSE response]
        ELSE IF action = "stop" THEN
            LET d1 == stop(d, t)
            IN  [d |-> d1, stream |-> FALSE,
                 ack |-> [ok |-> TRUE, action |-> action,
                          connected |-> d1.serial_open]]
        ELSE IF action = "clean" THEN
            LET d1 == clean(d, t)
            IN  [d |-> d1, stream |-> FALSE,
                 ack |-> [ok |-> TRUE, action |-> action,
                          connected |-> d1.serial_open]]
        ELSE IF action = "dock" THEN
            LET d1 == dock(d, t)
            IN  [d |-> d1, stream |-> FALSE,
                 ack |-> [ok |-> TRUE, action |-> action,
                          connected |-> d1.serial_open]]
        ELSE
            value_error(d, "Unsupported action")

----------------------------------------------------------------------------
(* The odometry estimator (odometry.py).  Its floats are fixed-point       *)
(* integers: lengths in 1/PosScale mm, angles in 1/AngScale degree,        *)
(* cosines and sines in 1/TrigScale, scale factors and blend factors in    *)
(* 1/PctScale.  The 1e-6 tolerances of the code (_EPSILON) are below one   *)
(* unit, so "<= _EPSILON" on a magnitude reads "= 0" and "> _EPSILON"      *)
(* reads "> 0".                                                            *)

PosScale == 100
AngScale == 100
TrigScale == 100
PctScale == 100

ENCODER_MAX == 65536
\* _MM_PER_TICK = 0.445, in micrometres
MM_PER_TICK_UM == 445
WHEEL_BASE_MM == 235
\* _CLEARANCE_TOL_MM = 2.0
CLEARANCE_TOL_MM == 2

\* an Optional value: None, or a value v held as <<v>>
None == <<>>
Some(v) == <<v>>
\* float("inf") as a clearance or a distance
Infinity == 2000000000

Sign(a) == IF a < 0 THEN -1 ELSE IF a > 0 THEN 1 ELSE 0

\* a / b rounded to the nearest unit (b > 0), the rounding of the float
\* result to the fixed-point grid
RoundDiv(a, b) == ((2 * a) + b) \div (2 * b)

\* a * b / c rounded to the nearest unit (b >= 0, c > 0), without leaving
\* 32 bits
MulDiv(a, b, c) == ((a \div c) * b) + RoundDiv((a % c) * b, c)

\* math.hypot and math.sqrt on the grid: the integer square root
RECURSIVE IsqrtBetween(_, _, _)
IsqrtBetween(n, lo, hi) ==
    IF lo >= hi THEN lo
    ELSE LET mid == (lo + hi + 1) \div 2
         IN  IF mid * mid <= n THEN IsqrtBetween(n, mid, hi)
             ELSE IsqrtBetween(n, lo, mid - 1)

Isqrt(n) == IsqrtBetween(n, 0, 46340)

hypot(dx, dy) == Isqrt((dx * dx) + (dy * dy))

\* math.sin of an angle in 1/AngScale degree, in 1/TrigScale: Bhaskara's
\* rational approximation on [0, 180] degrees (exact at 0, 30, 90, 150 and
\* 180 degrees, within 0.002 elsewhere), extended by sin(a + 180) = -sin(a)
SinHalfTurn(a) ==
    LET p == (a * ((180 * AngScale) - a)) \div (AngScale * AngScale)
    IN  RoundDiv(4 * TrigScale * p, 40500 - p)

Sin(angle) ==
    LET a == angle % (360 * AngScale)
    IN  IF a <= 180 * AngScale THEN SinHalfTurn(a)
        ELSE -SinHalfTurn(a - (180 * AngScale))

\* math.cos
Cos(angle) == Sin(angle + (90 * AngScale))

\* theta = (theta + pi) % (2 pi) - pi
normalize_theta(theta) ==
    ((theta + (180 * AngScale)) % (360 * AngScale)) - (180 * AngScale)

----------------------------------------------------------------------------
(* Collision geometry.  A polygon is a sequence of points <<x, y>>; o is   *)
(* the estimator's state.                                                  *)

\* OdometryEstimator._normalize_polygon on a list of well-formed points
normalize_polygon(raw_points) ==
    LET n == Len(raw_points)
        points == IF n >= 2 /\ raw_points[1] = raw_points[n]
                  THEN SubSeq(raw_points, 1, n - 1)
                  ELSE raw_points
    IN  IF Len(points) >= 3 THEN points ELSE <<>>

\* OdometryEstimator._object_polygon
object_polygon(obj, shape_map) ==
    LET local_poly ==
            IF "contour" \in DOMAIN obj THEN normalize_polygon(obj.contour)
            ELSE IF "shape_ref" \in DOMAIN obj /\ obj.shape_ref \in DOMAIN shape_map
                 THEN normalize_polygon(shape_map[obj.shape_ref].contour)
                 ELSE <<>>
        c == Cos(obj.theta_deg)
        s == Sin(obj.theta_deg)
    IN  IF Len(local_poly) < 3 THEN <<>>
        ELSE [k \in 1..Len(local_poly) |->
                 <<obj.x_mm + RoundDiv((local_poly[k][1] * c) - (local_poly[k][2] * s), TrigScale),
                   obj.y_mm + RoundDiv((local_poly[k][1] * s) + (local_poly[k][2] * c), TrigScale)>>]

\* the vertex after vertex i (1-based) of a polygon
NextVertex(polygon, i) == polygon[(i % Len(polygon)) + 1]

\* OdometryEstimator._point_on_segment; the cross product is an area, so its
\* tolerance of 1e-3 mm^2 is PosScale^2 / 1000 units
point_on_segment(px, py, ax, ay, bx, by) ==
    LET abx == bx - ax
        aby == by - ay
        apx == px - ax
        apy == py - ay
        cross == Abs((abx * apy) - (aby * apx))
        dot == (apx * abx) + (apy * aby)
        sq_len == (abx * abx) + (aby * aby)
    IN  IF cross > (PosScale * PosScale) \div 1000 THEN FALSE
        ELSE IF dot < 0 THEN FALSE
        ELSE IF dot - sq_len > 0 THEN FALSE
        ELSE TRUE

\* OdometryEstimator._point_in_polygon, the loop from edge i with the parity
\* so far.  x < (x2 - x1) * (y - y1) / (y2 - y1) + x1 is compared after
\* multiplying by y2 - y1, which is not 0 when the edge straddles y.
RECURSIVE point_in_polygon_from(_, _, _, _, _)
point_in_polygon_from(x, y, polygon, i, inside) ==
    IF i > Len(polygon) THEN inside
    ELSE
        LET x1 == polygon[i][1]
            y1 == polygon[i][2]
            x2 == NextVertex(polygon, i)[1]
            y2 == NextVertex(polygon, i)[2]
            intersects ==
                /\ (y1 > y) # (y2 > y)
                /\ IF y2 - y1 > 0
                   THEN (x - x1) * (y2 - y1) < (x2 - x1) * (y - y1)
                   ELSE (x - x1) * (y2 - y1) > (x2 - x1) * (y - y1)
        IN  IF point_on_segment(x, y, x1, y1, x2, y2) THEN TRUE
            ELSE point_in_polygon_from(x, y, polygon, i + 1,
                                       IF intersects THEN ~inside ELSE inside)

point_in_polygon(x, y, polygon) ==
    IF Len(polygon) < 3 THEN FALSE
    ELSE point_in_polygon_from(x, y, polygon, 1, FALSE)

\* OdometryEstimator._distance_point_segment.  With t = dot / den clamped to
\* [0, 1]: the nearest point is a for t = 0, b for t = 1, and otherwise the
\* foot of the perpendicular, whose distance is |cross| / |ab|.
distance_point_segment(x, y, ax, ay, bx, by) ==
    LET abx == bx - ax
        aby == by - ay
        den == (abx * abx) + (aby * aby)
        dot == ((x - ax) * abx) + ((y - ay) * aby)
    IN  IF den <= 0 THEN hypot(x - ax, y - ay)
        ELSE IF dot <= 0 THEN hypot(x - ax, y - ay)
        ELSE IF dot >= den THEN hypot(x - bx, y - by)
        ELSE RoundDiv(Abs((abx * (y - ay)) - (aby * (x - ax))), Isqrt(den))

edge_distance(x, y, polygon, i) ==
    distance_point_segment(x, y, polygon[i][1], polygon[i][2],
                           NextVertex(polygon, i)[1], NextVertex(polygon, i)[2])

\* OdometryEstimator._distance_point_to_polygon_edges
RECURSIVE distance_from_edge(_, _, _, _, _)
distance_from_edge(x, y, polygon, i, best) ==
    IF i > Len(polygon) THEN best
    ELSE distance_from_edge(x, y, polygon, i + 1,
                            Min(best, edge_distance(x, y, polygon, i)))

distance_point_to_polygon_edges(x, y, polygon) ==
    IF Len(polygon) < 2 THEN Infinity
    ELSE distance_from_edge(x, y, polygon, 1, Infinity)

\* OdometryEstimator._pose_clearance_mm: the clearance to one polygon at
\* edge distance edge_dist; beyond is TRUE for a point outside the room or
\* inside an obstacle
signed_clearance(edge_dist, beyond, robot_radius_mm) ==
    IF beyond THEN -edge_dist ELSE edge_dist - robot_radius_mm

\* OdometryEstimator._pose_clearance_mm, the loop over the obstacles from
\* obstacle k
RECURSIVE obstacle_clearance_from(_, _, _, _, _)
obstacle_clearance_from(o, x_mm, y_mm, k, clearance) ==
    IF k > Len(o.obstacle_polygons) THEN clearance
    ELSE obstacle_clearance_from(o, x_mm, y_mm, k + 1,
             Min(clearance,
                 signed_clearance(
                     distance_point_to_polygon_edges(x_mm, y_mm,
                                                     o.obstacle_polygons[k]),
                     point_in_polygon(x_mm, y_mm, o.obstacle_polygons[k]),
                     o.robot_radius_mm)))

\* OdometryEstimator._pose_clearance_mm
pose_clearance_mm(o, x_mm, y_mm) ==
    IF Len(o.room_contour) < 3 THEN Infinity
    ELSE obstacle_clearance_from(o, x_mm, y_mm, 1,
             signed_clearance(
                 distance_point_to_polygon_edges(x_mm, y_mm, o.room_contour),
                 ~point_in_polygon(x_mm, y_mm, o.room_contour),
                 o.robot_radius_mm))

\* OdometryEstimator._is_pose_valid
is_pose_valid(o, x_mm, y_mm) == pose_clearance_mm(o, x_mm, y_mm) >= 0

\* OdometryEstimator._closest_edge_segment, the update of best by the edge
\* from a to b at distance dist
nearer_edge(best, a, b, dist) ==
    IF best = None \/ dist < best[1][5]
    THEN Some(<<a[1], a[2], b[1], b[2], dist>>) ELSE best

\* OdometryEstimator._closest_edge_segment: <<ax, ay, bx, by, dist>> of the
\* first edge at the least distance, inside an Optional
RECURSIVE closest_edge_from(_, _, _, _, _)
closest_edge_from(x, y, polygon, i, best) ==
    IF i > Len(polygon) THEN best
    ELSE closest_edge_from(x, y, polygon, i + 1,
                           nearer_edge(best, polygon[i], NextVertex(polygon, i),
                                       edge_distance(x, y, polygon, i)))

closest_edge_segment(x, y, polygon) ==
    IF Len(polygon) < 2 THEN None
    ELSE closest_edge_from(x, y, polygon, 1, None)

\* OdometryEstimator._nearest_collision_edge: the closest edge of a polygon
\* is a candidate when the point is beyond the polygon (outside the room,
\* inside an obstacle) or nearer than the robot's radius; <<edge>> or <<>>
candidate_edge(edge, beyond, robot_radius_mm) ==
    IF edge # None /\ (beyond \/ edge[1][5] < robot_radius_mm)
    THEN edge ELSE <<>>

\* OdometryEstimator._nearest_collision_edge: the candidate edges, room first
RECURSIVE obstacle_candidates_from(_, _, _, _)
obstacle_candidates_from(o, x, y, k) ==
    IF k > Len(o.obstacle_polygons) THEN <<>>
    ELSE candidate_edge(closest_edge_segment(x, y, o.obstacle_polygons[k]),
                        point_in_polygon(x, y, o.obstacle_polygons[k]),
                        o.robot_radius_mm)
             \o obstacle_candidates_from(o, x, y, k + 1)

\* min(candidates, key = distance): the first candidate at the least distance
RECURSIVE min_candidate(_, _, _)
min_candidate(candidates, i, best) ==
    IF i > Len(candidates) THEN best
    ELSE min_candidate(candidates, i + 1,
                       IF candidates[i][5] < best[5] THEN candidates[i] ELSE best)

nearest_candidate(candidates) ==
    IF candidates = <<>> THEN None
    ELSE Some(SubSeq(min_candidate(candidates, 2, candidates[1]), 1, 4))

nearest_collision_edge(o, x, y) ==
    nearest_candidate(
        candidate_edge(closest_edge_segment(x, y, o.room_contour),
                       ~point_in_polygon(x, y, o.room_contour),
                       o.robot_radius_mm)
            \o obstacle_candidates_from(o, x, y, 1))

----------------------------------------------------------------------------
(* Motion clamping *)

\* OdometryEstimator._accept_clearance, were the tolerance granted to valid
\* poses too
accept_clearance_relative(start_clearance, candidate_clearance) ==
    candidate_clearance >= start_clearance - (CLEARANCE_TOL_MM * PosScale)

\* OdometryEstimator._accept_clearance
accept_clearance(start_clearance, candidate_clearance) ==
    IF start_clearance >= 0 THEN candidate_clearance >= 0
    ELSE candidate_clearance >= start_clearance - (CLEARANCE_TOL_MM * PosScale)

\* OdometryEstimator._try_slide_step_locked, the loop over the scales from
\* the k-th: Some(<<cand_dx, cand_dy>>) or None.  (ex, ey) / norm is the unit
\* tangent (tx, ty).
slide_scales == <<100, 70, 45, 25>>

RECURSIVE slide_from(_, _, _, _, _, _, _, _, _)
slide_from(o, base_x, base_y, ex, ey, norm, tangent_step, start_clearance, k) ==
    IF k > Len(slide_scales) THEN None
    ELSE
        LET move == RoundDiv(tangent_step * slide_scales[k], PctScale)
            cand_dx == RoundDiv(ex * move, norm)
            cand_dy == RoundDiv(ey * move, norm)
        IN  IF accept_clearance(start_clearance,
                                pose_clearance_mm(o, base_x + cand_dx,
                                                  base_y + cand_dy))
            THEN Some(<<cand_dx, cand_dy>>)
            ELSE slide_from(o, base_x, base_y, ex, ey, norm, tangent_step,
                            start_clearance, k + 1)

\* OdometryEstimator._try_slide_step_locked
slide_along(o, base_x, base_y, step_dx, step_dy, edge, start_clearance) ==
    IF edge = None THEN None
    ELSE
        LET ex == edge[1][3] - edge[1][1]
            ey == edge[1][4] - edge[1][2]
            norm == hypot(ex, ey)
        IN  IF norm <= 0 THEN None
            ELSE IF RoundDiv((step_dx * ex) + (step_dy * ey), norm) = 0 THEN None
            ELSE slide_from(o, base_x, base_y, ex, ey, norm,
                            RoundDiv((step_dx * ex) + (step_dy * ey), norm),
                            start_clearance, 1)

\* edge = nearest(probe); if edge is None: edge = nearest(base)
or_else(edge, other) == IF edge = None THEN other ELSE edge

try_slide_step(o, base_x, base_y, step_dx, step_dy, probe_x, probe_y, start_clearance) ==
    slide_along(o, base_x, base_y, step_dx, step_dy,
                or_else(nearest_collision_edge(o, probe_x, probe_y),
                        nearest_collision_edge(o, base_x, base_y)),
                start_clearance)

\* max_step of OdometryEstimator._clamp_translation_locked
max_step_of(robot_radius_mm) ==
    Max(5 * PosScale,
        Min(20 * PosScale,
            IF robot_radius_mm > 0 THEN RoundDiv(robot_radius_mm, 2)
            ELSE 20 * PosScale))

\* OdometryEstimator._clamp_translation_locked, its while loop.  c holds the
\* loop's variables, stopped for its break, and three records of the run:
\* path, the positions the loop moved through, steps, the iterations that
\* changed the position, and distance, the value of remaining at the start.
\* the loop's variables after an iteration that moved to (x, y), by
\* (dx, dy), where the clearance is clearance
moved(c, x, y, dx, dy, clearance, step_len) ==
    [c EXCEPT !.cur_x = x, !.cur_y = y,
              !.moved_dx = @ + dx, !.moved_dy = @ + dy,
              !.start_clearance = clearance,
              !.remaining = @ - step_len,
              !.path = Append(@, <<x, y>>),
              !.steps = @ + 1]

\* lines 580-591: the outcome of the slide attempt; no slide ends the loop
after_slide(o, c, slide, step_len) ==
    IF slide = None THEN [c EXCEPT !.stopped = TRUE]
    ELSE moved(c, c.cur_x + slide[1][1], c.cur_y + slide[1][2],
               slide[1][1], slide[1][2],
               pose_clearance_mm(o, c.cur_x + slide[1][1], c.cur_y + slide[1][2]),
               step_len)

\* lines 563-579: the probe is accepted, or a slide is tried
after_probe(o, c, step_dx, step_dy, probe_clearance, step_len) ==
    IF accept_clearance(c.start_clearance, probe_clearance)
    THEN moved(c, c.cur_x + step_dx, c.cur_y + step_dy, step_dx, step_dy,
               probe_clearance, step_len)
    ELSE after_slide(o, c,
                     try_slide_step(o, c.cur_x, c.cur_y, step_dx, step_dy,
                                    c.cur_x + step_dx, c.cur_y + step_dy,
                                    c.start_clearance),
                     step_len)

\* one iteration of the loop
clamp_iteration(o, c, max_step, ux, uy) ==
    LET step_len == Min(max_step, c.remaining)
        step_dx == RoundDiv(ux * step_len, TrigScale)
        step_dy == RoundDiv(uy * step_len, TrigScale)
    IN  after_probe(o, c, step_dx, step_dy,
                    pose_clearance_mm(o, c.cur_x + step_dx, c.cur_y + step_dy),
                    step_len)

RECURSIVE clamp_loop(_, _, _, _, _)
clamp_loop(o, c, max_step, ux, uy) ==
    IF c.remaining <= 0 \/ c.stopped THEN c
    ELSE clamp_loop(o, clamp_iteration(o, c, max_step, ux, uy), max_step, ux, uy)

\* the record of a call that ran no loop
NoRun == [planned |-> FALSE]

\* OdometryEstimator._clamp_translation_locked:
\* [dx, dy, d, run], run being the record of the loop
\* the loop's variables at its start
clamp_start(o, distance, first_clearance) ==
    [cur_x |-> o.x_mm, cur_y |-> o.y_mm, moved_dx |-> 0, moved_dy |-> 0,
     start_clearance |-> first_clearance, remaining |-> distance,
     path |-> <<<<o.x_mm, o.y_mm>>>>, steps |-> 0, stopped |-> FALSE,
     first_clearance |-> first_clearance, distance |-> distance,
     planned |-> TRUE]

\* a result whose magnitude carries no sign
clamp_result_unsigned(c, direction) ==
    [dx |-> c.moved_dx, dy |-> c.moved_dy,
     d |-> hypot(c.moved_dx, c.moved_dy), run |-> c]

\* lines 593-595
clamp_result(c, direction) ==
    [dx |-> c.moved_dx, dy |-> c.moved_dy,
     d |-> direction * hypot(c.moved_dx, c.moved_dy), run |-> c]

clamp_translation(o, desired_distance_mm, heading) ==
    IF desired_distance_mm = 0
    THEN [dx |-> 0, dy |-> 0, d |-> 0, run |-> NoRun]
    ELSE IF Len(o.room_contour) < 3
    THEN [dx |-> RoundDiv(desired_distance_mm * Cos(heading), TrigScale),
          dy |-> RoundDiv(desired_distance_mm * Sin(heading), TrigScale),
          d |-> desired_distance_mm, run |-> NoRun]
    ELSE clamp_result(
             clamp_loop(o,
                 clamp_start(o, Abs(desired_distance_mm),
                             pose_clearance_mm(o, o.x_mm, o.y_mm)),
                 max_step_of(o.robot_radius_mm),
                 Sign(desired_distance_mm) * Cos(heading),
                 Sign(desired_distance_mm) * Sin(heading)),
             Sign(desired_distance_mm))

\* OdometryEstimator._snap_pose_to_valid_locked: the search of ring r_i from
\* the angle given, Some(<<cx, cy>>) for the first valid point of the ring
RECURSIVE snap_ring(_, _, _)
snap_ring(o, r_i, angle) ==
    IF angle >= 360 * AngScale THEN None
    ELSE
        LET r == r_i * 20 * PosScale
            cx == o.x_mm + RoundDiv(r * Cos(angle), TrigScale)
            cy == o.y_mm + RoundDiv(r * Sin(angle), TrigScale)
        IN  IF is_pose_valid(o, cx, cy) THEN Some(<<cx, cy>>)
            ELSE snap_ring(o, r_i, angle + (12 * AngScale))

RECURSIVE snap_rings(_, _, _)
snap_rings(o, r_i, rings) ==
    IF r_i > rings THEN None
    ELSE or_else(snap_ring(o, r_i, 0), snap_rings(o, r_i + 1, rings))

\* lines 333-335
snap_to(o, best) ==
    IF best # None THEN [o EXCEPT !.x_mm = best[1][1], !.y_mm = best[1][2]]
    ELSE o

snap_pose_to_valid(o) ==
    IF Len(o.room_contour) < 3 THEN o
    ELSE IF is_pose_valid(o, o.x_mm, o.y_mm) THEN o
    ELSE snap_to(o, snap_rings(o, 1,
                        Max(300 * PosScale, o.robot_radius_mm * 3)
                            \div (20 * PosScale)))

----------------------------------------------------------------------------
(* The estimator's public operations, as functions of its state o *)

\* OdometryEstimator.__init__
InitEstimator(source, linear_scale, angular_scale) ==
    [x_mm |-> 0, y_mm |-> 0, theta |-> 0,
     last_total_distance_mm |-> None, last_total_angle_deg |-> None,
     last_left_encoder_counts |-> None, last_right_encoder_counts |-> None,
     last_delta_distance_mm |-> 0, last_delta_angle_deg |-> 0,
     source |-> source, linear_scale |-> linear_scale,
     angular_scale |-> angular_scale,
     room_contour |-> <<>>, obstacle_polygons |-> <<>>, robot_radius_mm |-> 0,
     history |-> <<>>, run |-> NoRun,
     enc |-> [used |-> FALSE], ops |-> 0]

\* OdometryEstimator._snapshot_locked
snapshot(o) ==
    [x_mm |-> o.x_mm, y_mm |-> o.y_mm, theta_deg |-> o.theta,
     last_delta_distance_mm |-> o.last_delta_distance_mm,
     last_delta_angle_deg |-> o.last_delta_angle_deg]

\* OdometryEstimator._write_history_locked with a sink installed: history
\* holds the events of the operation in progress
write_history(o, payload) == [o EXCEPT !.history = Append(@, payload)]

\* OdometryEstimator._write_history_locked, its try/except around the
\* sink: how the call ends for an outcome of the sink ("appended" or
\* "raises")
write_history_locked_propagates(outcome) ==
    IF outcome = "raises" THEN "raise" ELSE "return"

write_history_locked(outcome) == "return"

\* an operation starts: no event written, no clamp run and no encoder delta
\* taken yet; ops counts the operations
Begin(o) ==
    [o EXCEPT !.history = <<>>, !.run = NoRun, !.enc = [used |-> FALSE],
              !.ops = @ + 1]

\* a baseline argument of reset: None, or int(value) % _ENCODER_MAX
encoder_baseline(base) ==
    IF base = None THEN None ELSE Some(base[1] % ENCODER_MAX)

\* OdometryEstimator.reset
\* lines 61-80, o being the state after _snap_pose_to_valid_locked
reset_baselines(o, base_total_distance_mm, base_total_angle_deg, base_left_encoder_counts, base_right_encoder_counts) ==
    LET o2 == [o EXCEPT
                  !.last_total_distance_mm = base_total_distance_mm,
                  !.last_total_angle_deg = base_total_angle_deg,
                  !.last_left_encoder_counts =
                      encoder_baseline(base_left_encoder_counts),
                  !.last_right_encoder_counts =
                      encoder_baseline(base_right_encoder_counts),
                  !.last_delta_distance_mm = 0,
                  !.last_delta_angle_deg = 0]
    IN  write_history(o2, [event |-> "reset", x_mm |-> o2.x_mm, y_mm |-> o2.y_mm,
                           theta_deg |-> (o2.theta + (360 * AngScale))
                                             % (360 * AngScale)])

reset(o, x_mm, y_mm, theta_deg, base_total_distance_mm, base_total_angle_deg, base_left_encoder_counts, base_right_encoder_counts) ==
    reset_baselines(
        snap_pose_to_valid([Begin(o) EXCEPT !.x_mm = x_mm, !.y_mm = y_mm,
                                            !.theta = theta_deg]),
        base_total_distance_mm, base_total_angle_deg,
        base_left_encoder_counts, base_right_encoder_counts)

\* OdometryEstimator._delta_encoder_counts, without the wrap
delta_encoder_counts_no_wrap(previous, current) == current - previous

\* OdometryEstimator._delta_encoder_counts
delta_encoder_counts(previous, current) ==
    ((current - previous + (ENCODER_MAX \div 2)) % ENCODER_MAX)
        - (ENCODER_MAX \div 2)

\* OdometryEstimator._consume_encoder_wheels_mm_locked:
\* [o, dl, dr], the wheel travels in micrometres; enc keeps the call's local
\* variables
consume_encoder_wheels_mm(o, left_counts_in, right_counts_in) ==
    LET left_counts == left_counts_in % ENCODER_MAX
        right_counts == right_counts_in % ENCODER_MAX
        o1 == [o EXCEPT !.last_left_encoder_counts = Some(left_counts),
                        !.last_right_encoder_counts = Some(right_counts)]
    IN  IF o.last_left_encoder_counts = None \/ o.last_right_encoder_counts = None
        THEN [o |-> o1, dl |-> 0, dr |-> 0]
        ELSE
            LET delta_left_counts ==
                    delta_encoder_counts(o.last_left_encoder_counts[1], left_counts)
                delta_right_counts ==
                    delta_encoder_counts(o.last_right_encoder_counts[1], right_counts)
            IN  [o |-> [o1 EXCEPT !.enc =
                           [used |-> TRUE,
                            previous_left |-> o.last_left_encoder_counts[1],
                            previous_right |-> o.last_right_encoder_counts[1],
                            left_counts |-> left_counts,
                            right_counts |-> right_counts,
                            delta_left_counts |-> delta_left_counts,
                            delta_right_counts |-> delta_right_counts]],
                 dl |-> delta_left_counts * MM_PER_TICK_UM,
                 dr |-> delta_right_counts * MM_PER_TICK_UM]

\* OdometryEstimator._consume_oi_angle_delta_locked: [o, delta], delta an
\* Optional angle
consume_oi_angle_delta(o, tel) ==
    IF "total_angle_deg" \notin DOMAIN tel THEN [o |-> o, delta |-> None]
    ELSE
        LET total == tel.total_angle_deg * AngScale
        IN  IF o.last_total_angle_deg = None
            THEN [o |-> [o EXCEPT !.last_total_angle_deg = Some(total)],
                  delta |-> None]
            ELSE [o |-> [o EXCEPT !.last_total_angle_deg = Some(total)],
                  delta |-> Some(total - o.last_total_angle_deg[1])]

\* the "update" history event
update_event(o, distance_mm, angle_deg, tel, source, c) ==
    [event |-> "update", distance_mm |-> distance_mm, angle_deg |-> angle_deg,
     x_mm |-> o.x_mm, y_mm |-> o.y_mm, theta_deg |-> o.theta,
     telemetry_ts |-> Get(tel, "timestamp", 0), source |-> source,
     collision_clamped |-> c]

\* OdometryEstimator._update_from_encoders_locked.  degrees((dr - dl) /
\* _WHEEL_BASE_MM) of a difference in micrometres, in 1/100 degree, is the
\* difference times 180 * 100 / (235000 * pi) = 2034 / 83425 with
\* pi = 355 / 113.
\* abs(applied_dx - expected_dx) > 1e-3 or abs(applied_dy - expected_dy) > 1e-3
collision_clamped(applied, d, theta) ==
    \/ applied.dx # RoundDiv(d * Cos(theta), TrigScale)
    \/ applied.dy # RoundDiv(d * Sin(theta), TrigScale)

\* an encoder update that writes its event for a translation only
encoders_apply_event_on_distance_only(o, d, angle_deg, applied, tel) ==
    LET o2 == [o EXCEPT !.x_mm = @ + applied.dx, !.y_mm = @ + applied.dy,
                        !.last_delta_distance_mm = applied.d,
                        !.last_delta_angle_deg = angle_deg,
                        !.run = applied.run]
    IN  IF applied.d # 0
        THEN write_history(o2,
                 update_event(o2, applied.d, angle_deg, tel, "encoders",
                              collision_clamped(applied, d, o.theta)))
        ELSE o2

\* lines 173-192, applied being the result of _clamp_translation_locked
encoders_apply(o, d, angle_deg, applied, tel) ==
    LET o2 == [o EXCEPT !.x_mm = @ + applied.dx, !.y_mm = @ + applied.dy,
                        !.last_delta_distance_mm = applied.d,
                        !.last_delta_angle_deg = angle_deg,
                        !.run = applied.run]
    IN  IF applied.d # 0 \/ angle_deg # 0
        THEN write_history(o2,
                 update_event(o2, applied.d, angle_deg, tel, "encoders",
                              collision_clamped(applied, d, o.theta)))
        ELSE o2

\* lines 168-172, o holding the new heading
encoders_translate(o, d, angle_deg, tel) ==
    encoders_apply(o, d, angle_deg, clamp_translation(o, d, o.theta), tel)

\* lines 158-170 with a bump that zeroes every linear step, reverse included
encoders_integrate_blocks_reverse(w, bump_left, bump_right, oi_delta_angle_deg, tel) ==
    LET d0 == MulDiv(w.dl + w.dr, w.o.linear_scale,
                     2 * PctScale * (1000 \div PosScale))
        d == IF bump_left \/ bump_right THEN 0 ELSE d0
        angle_deg ==
            IF oi_delta_angle_deg # None
            THEN MulDiv(oi_delta_angle_deg[1], w.o.angular_scale, PctScale)
            ELSE MulDiv(MulDiv(w.dr - w.dl, 2034, 83425),
                        w.o.angular_scale, PctScale)
    IN  encoders_translate(
            [w.o EXCEPT !.theta = normalize_theta(@ + angle_deg),
                        !.enc = [bump_active |-> bump_left \/ bump_right] @@ @],
            d, angle_deg, tel)

\* lines 158-170, w being the result of _consume_encoder_wheels_mm_locked;
\* enc also keeps bump_active
encoders_integrate(w, bump_left, bump_right, oi_delta_angle_deg, tel) ==
    LET d0 == MulDiv(w.dl + w.dr, w.o.linear_scale,
                     2 * PctScale * (1000 \div PosScale))
        d == IF (bump_left \/ bump_right) /\ d0 > 0 THEN 0 ELSE d0
        angle_deg ==
            IF oi_delta_angle_deg # None
            THEN MulDiv(oi_delta_angle_deg[1], w.o.angular_scale, PctScale)
            ELSE MulDiv(MulDiv(w.dr - w.dl, 2034, 83425),
                        w.o.angular_scale, PctScale)
    IN  encoders_translate(
            [w.o EXCEPT !.theta = normalize_theta(@ + angle_deg),
                        !.enc = [bump_active |-> bump_left \/ bump_right] @@ @],
            d, angle_deg, tel)

update_from_encoders(o, left_counts, right_counts, bump_left, bump_right, oi_delta_angle_deg, tel) ==
    encoders_integrate(consume_encoder_wheels_mm(o, left_counts, right_counts),
                       bump_left, bump_right, oi_delta_angle_deg, tel)

\* OdometryEstimator.update_from_telemetry, the branch of the scalar
\* accumulators (lines 102-146)
\* lines 127-144, applied being the result of _clamp_translation_locked
totals_apply(o, d, dtheta, applied, tel) ==
    LET o3 == [o EXCEPT !.x_mm = @ + applied.dx, !.y_mm = @ + applied.dy,
                        !.run = applied.run]
    IN  [write_history(o3,
             update_event(o3, applied.d, dtheta, tel, "distance_angle",
                          collision_clamped(applied, d, o.theta)))
            EXCEPT !.last_delta_distance_mm = applied.d,
                   !.last_delta_angle_deg = dtheta]

\* a translation along the heading before the turn
totals_translate_old_heading(o, d, dtheta, tel) ==
    totals_apply(o, d, dtheta,
                 clamp_translation(o, d, normalize_theta(o.theta - dtheta)), tel)

\* lines 124-126, o holding the new heading
totals_translate(o, d, dtheta, tel) ==
    totals_apply(o, d, dtheta, clamp_translation(o, d, o.theta), tel)

update_from_totals(o, tel) ==
    LET total_distance_mm == Get(tel, "total_distance_mm", 0) * PosScale
        total_angle_deg == Get(tel, "total_angle_deg", 0) * AngScale
    IN  IF o.last_total_distance_mm = None \/ o.last_total_angle_deg = None
        THEN [o EXCEPT !.last_total_distance_mm = Some(total_distance_mm),
                       !.last_total_angle_deg = Some(total_angle_deg)]
        ELSE
            LET delta_distance_mm ==
                    MulDiv(total_distance_mm - o.last_total_distance_mm[1],
                           o.linear_scale, PctScale)
                delta_angle_deg ==
                    MulDiv(total_angle_deg - o.last_total_angle_deg[1],
                           o.angular_scale, PctScale)
                dtheta == MulDiv(delta_angle_deg, o.angular_scale, PctScale)
                o1 == [o EXCEPT
                          !.last_total_distance_mm = Some(total_distance_mm),
                          !.last_total_angle_deg = Some(total_angle_deg),
                          !.last_delta_distance_mm = delta_distance_mm,
                          !.last_delta_angle_deg = delta_angle_deg]
            IN  IF delta_distance_mm # 0 \/ delta_angle_deg # 0
                THEN totals_translate(
                         [o1 EXCEPT !.theta = normalize_theta(@ + dtheta)],
                         MulDiv(delta_distance_mm, o.linear_scale, PctScale),
                         dtheta, tel)
                ELSE o1

\* OdometryEstimator.update_from_telemetry
update_from_telemetry(o0, tel) ==
    LET o == Begin(o0)
        has_encoders == /\ "left_encoder_counts" \in DOMAIN tel
                        /\ "right_encoder_counts" \in DOMAIN tel
        use_encoders == o.source \in {"encoders", "auto", "distance_angle"}
        oi == IF o.source = "distance_angle"
              THEN consume_oi_angle_delta(o, tel)
              ELSE [o |-> o, delta |-> None]
    IN  IF use_encoders /\ has_encoders
        THEN update_from_encoders(oi.o, tel.left_encoder_counts,
                                  tel.right_encoder_counts,
                                  Get(tel, "bump_left", FALSE),
                                  Get(tel, "bump_right", FALSE),
                                  oi.delta, tel)
        ELSE update_from_totals(o, tel)

\* OdometryEstimator.apply_external_pose; the blends are in 1/PctScale
\* lines 255-268 with the sensor baselines forgotten as well
external_pose_event_drops_baselines(o, bp, bt, source) ==
    LET o2 == [o EXCEPT !.last_delta_distance_mm = 0,
                        !.last_delta_angle_deg = 0,
                        !.last_total_distance_mm = None,
                        !.last_total_angle_deg = None,
                        !.last_left_encoder_counts = None,
                        !.last_right_encoder_counts = None]
    IN  write_history(o2, [event |-> "external_pose", x_mm |-> o2.x_mm,
                           y_mm |-> o2.y_mm, theta_deg |-> o2.theta,
                           source |-> source, blend_pos |-> bp,
                           blend_theta |-> bt])

\* lines 255-268, o being the state after _snap_pose_to_valid_locked
external_pose_event(o, bp, bt, source) ==
    LET o2 == [o EXCEPT !.last_delta_distance_mm = 0,
                        !.last_delta_angle_deg = 0]
    IN  write_history(o2, [event |-> "external_pose", x_mm |-> o2.x_mm,
                           y_mm |-> o2.y_mm, theta_deg |-> o2.theta,
                           source |-> source, blend_pos |-> bp,
                           blend_theta |-> bt])

\* OdometryEstimator.apply_external_pose with the default blends, whatever
\* the caller gives
apply_external_pose_default_blends(o0, x_mm, y_mm, theta_deg, blend_pos, blend_theta, source) ==
    LET o == Begin(o0)
        delta_theta_deg ==
            ((theta_deg - o.theta + (180 * AngScale)) % (360 * AngScale))
                - (180 * AngScale)
    IN  external_pose_event(
            snap_pose_to_valid(
                [o EXCEPT !.x_mm = @ + MulDiv(x_mm - @, 35, PctScale),
                          !.y_mm = @ + MulDiv(y_mm - @, 35, PctScale),
                          !.theta = normalize_theta(
                                        @ + MulDiv(delta_theta_deg, 20, PctScale))]),
            Max(0, Min(PctScale, blend_pos)), Max(0, Min(PctScale, blend_theta)),
            source)

apply_external_pose(o0, x_mm, y_mm, theta_deg, blend_pos, blend_theta, source) ==
    LET o == Begin(o0)
        bp == Max(0, Min(PctScale, blend_pos))
        bt == Max(0, Min(PctScale, blend_theta))
        delta_theta_deg ==
            ((theta_deg - o.theta + (180 * AngScale)) % (360 * AngScale))
                - (180 * AngScale)
    IN  external_pose_event(
            snap_pose_to_valid(
                [o EXCEPT !.x_mm = @ + MulDiv(x_mm - @, bp, PctScale),
                          !.y_mm = @ + MulDiv(y_mm - @, bp, PctScale),
                          !.theta = normalize_theta(
                                        @ + MulDiv(delta_theta_deg, bt, PctScale))]),
            bp, bt, source)

\* the obstacles of a plan, from object k
RECURSIVE plan_obstacles_from(_, _, _)
plan_obstacles_from(objects, shape_map, k) ==
    IF k > Len(objects) THEN <<>>
    ELSE LET poly == object_polygon(objects[k], shape_map)
         IN  (IF Len(poly) >= 3 THEN <<poly>> ELSE <<>>)
                 \o plan_obstacles_from(objects, shape_map, k + 1)

\* OdometryEstimator.set_collision_plan; plan is an Optional record
set_collision_plan(o0, plan, robot_radius_mm) ==
    LET o == Begin(o0)
        contour == IF plan = None THEN <<>>
                   ELSE normalize_polygon(Get(plan[1], "contour", <<>>))
        obstacles ==
            IF plan = None THEN <<>>
            ELSE plan_obstacles_from(Get(plan[1], "objects", <<>>),
                                     Get(plan[1], "object_shapes", <<>>), 1)
    IN  [o EXCEPT !.room_contour = contour, !.obstacle_polygons = obstacles,
                  !.robot_radius_mm = Max(0, robot_radius_mm)]

----------------------------------------------------------------------------
(* The state after construction, and the actions of the command path *)

\* the stream reader thread before it is started
NoReader ==
    [pc |-> "none", frame |-> <<>>, payload |-> <<>>, i |-> 0,
     pre |-> InitTelemetry]

\* RoombaOI.__init__; the clock has moved on since the telemetry record was
\* stamped
InitDriver ==
    /\ serial_open = FALSE
    /\ wire = <<>>
    /\ telemetry = InitTelemetry
    /\ stream_buffer = <<>>
    /\ rx = [bytes |-> <<>>, pos |-> 0, applied |-> <<>>, at |-> 0]
    /\ rd = NoReader
    /\ now = 1
    /\ last_stream_update = 0
    /\ last_stream_start = 0
    /\ stream_packet_ids = STREAM_PACKETS_DEFAULT
    /\ watchdog = [turn |-> 0, issued |-> <<>>]

\* the callers of the estimator: two request-handler threads
Threads == {"a", "b"}

\* ArucoService.__init__: the input queue (maxsize 2) is empty; arrived,
\* received, dropped and last record what became of the frames
ArucoService(enabled) ==
    [enabled |-> enabled, queue |-> <<>>, pc |-> "idle",
     frame |-> [n |-> 0, size |-> 0], arrived |-> 0, received |-> <<>>,
     dropped |-> {}, last |-> 0]

\* before any request: the estimator's lock is free, the journal file is
\* empty and no plan is loaded
InitEstimatorCallers ==
    /\ threads = [lock |-> "free",
                  pc |-> [t \in Threads |-> "idle"],
                  op |-> [t \in Threads |-> [name |-> "none"]],
                  outcome |-> [t \in Threads |-> "none"],
                  returned |-> [t \in Threads |-> "nothing"],
                  started |-> 0, applied |-> 0]
    /\ journal = [lines |-> <<>>, op |-> "__init__", ops |-> 0, read |-> None]
    /\ plans = [plan |-> None, request |-> [kind |-> "null"],
                response |-> [ok |-> TRUE], loads |-> 0]
    /\ push = [pc |-> "idle", iter |-> 0, raised |-> 0, watched |-> 0,
               sent |-> 0, disconnected |-> FALSE]
    /\ writers = [lock |-> "free", pc |-> [t \in Threads |-> "idle"],
                  cmd |-> [t \in Threads |-> <<>>],
                  pos |-> [t \in Threads |-> 0],
                  id |-> [t \in Threads |-> 0],
                  result |-> [t \in Threads |-> "none"],
                  link |-> <<>>, calls |-> 0]
    /\ readers = [stop |-> FALSE, thread |-> 0, pc |-> <<>>, open |-> FALSE,
                  calls |-> 0]
    /\ increments = [distance |-> <<>>, angle |-> <<>>]

\* the detector is disabled unless the configuration enables it
InitSide ==
    /\ InitEstimatorCallers
    /\ detector = ArucoService(FALSE)

InitRequests ==
    /\ req = [action |-> ""]
    /\ drv = <<0, 0>>
    /\ ack = [ok |-> TRUE, action |-> "none"]
    /\ snap = [tel |-> InitTelemetry, mid |-> FALSE, pre |-> InitTelemetry,
               payload |-> <<>>]

InitCallers == InitSide /\ InitRequests

\* the fields of the driver the command methods work on, at the start of an
\* operation: nothing written yet
Driver ==
    [serial_open |-> serial_open, wire |-> <<>>, telemetry |-> telemetry,
     drv |-> drv]

\* what a get_telemetry_snapshot call returns now, with the frame the reader
\* thread is applying at that moment (mid: it is inside _apply_stream_payload)
TakeSnapshot ==
    [tel |-> get_telemetry_snapshot(Driver), mid |-> rd.pc = "apply",
     pre |-> rd.pre, payload |-> rd.payload]

\* one control message, handled from receipt to ack
HandleControlMessage(message) ==
    LET res == handle_control_message(message, Driver, now)
    IN  /\ req' = message
        /\ ack' = res.ack
        /\ serial_open' = res.d.serial_open
        /\ wire' = res.d.wire
        /\ telemetry' = res.d.telemetry
        /\ drv' = res.d.drv
        \* _start_stream_reader: a thread is started unless one is alive
        /\ rd' = IF res.stream /\ rd.pc = "none"
                 THEN [rd EXCEPT !.pc = "read"] ELSE rd
        /\ snap' = IF Get(message, "action", "") = "drive"
                   THEN TakeSnapshot ELSE snap
        \* start_sensor_stream: the ids and the time of the subscription
        /\ stream_packet_ids' = IF res.stream THEN STREAM_PACKETS_DEFAULT
                                ELSE stream_packet_ids
        /\ last_stream_start' = IF res.stream THEN now ELSE last_stream_start
        /\ UNCHANGED <<stream_buffer, rx, now, last_stream_update, watchdog>>
        /\ UNCHANGED <<odoVars, sideVars>>

\* an init message during which the serial port fails at one step: the
\* error propagates out of handle_control_message
HandleInitRaising(raises) ==
    LET res == handle_init(Driver, now, raises)
    IN  /\ req' = [action |-> "init"]
        /\ ack' = res.ack
        /\ serial_open' = res.d.serial_open
        /\ wire' = res.d.wire
        /\ telemetry' = res.d.telemetry
        /\ drv' = res.d.drv
        /\ rd' = IF res.stream /\ rd.pc = "none"
                 THEN [rd EXCEPT !.pc = "read"] ELSE rd
        \* start_sensor_stream stores the ids before its write
        /\ stream_packet_ids' = IF raises = "stream" THEN STREAM_PACKETS_DEFAULT
                                ELSE stream_packet_ids
        /\ last_stream_start' = IF res.stream THEN now ELSE last_stream_start
        /\ UNCHANGED <<stream_buffer, rx, now, last_stream_update, watchdog,
                       snap>>
        /\ UNCHANGED <<odoVars, sideVars>>

\* a direct call of RoombaOI.drive(velocity, radius)
Drive(velocity, radius) ==
    LET d1 == drive(Driver, velocity, radius, now)
    IN  /\ serial_open' = d1.serial_open
        /\ wire' = d1.wire
        /\ telemetry' = d1.telemetry
        /\ drv' = d1.drv
        /\ UNCHANGED <<stream_buffer, rx, rd, now, last_stream_update, watchVars,
                       req, ack, snap>>
        /\ UNCHANGED <<odoVars, sideVars>>

\* RoombaOI._apply_stream_payload(payload) run to its end on one decoded frame
ApplyStreamPayload(payload) ==
    /\ telemetry' = apply_stream_payload(telemetry, payload, 0, now)
    /\ last_stream_update' =
               IF payload_complete(payload, 0) THEN now ELSE last_stream_update
    /\ wire' = <<>>
    /\ UNCHANGED <<serial_open, stream_buffer, rx, rd, now, watchVars,
                   req, drv, ack, snap>>
    /\ UNCHANGED <<odoVars, sideVars>>

\* a get_telemetry_snapshot call by a reader of the telemetry (a request
\* handler, the push loop)
GetTelemetrySnapshot ==
    /\ snap' = TakeSnapshot
    /\ wire' = <<>>
    /\ UNCHANGED <<serial_open, telemetry, stream_buffer, rx, rd, now,
                   last_stream_update, watchVars, req, drv, ack>>
    /\ UNCHANGED <<odoVars, sideVars>>

\* the clock advances, up to a limit
ClockAdvance(limit) ==
    /\ now < limit
    /\ now' = now + 1
    /\ wire' = <<>>
    /\ UNCHANGED <<serial_open, telemetry, stream_buffer, rx, rd,
                   last_stream_update, watchVars, req, drv, ack, snap>>
    /\ UNCHANGED <<odoVars, sideVars>>

Tick == ClockAdvance(MaxTime)

\* RoombaOI.start_sensor_stream(packet_ids) called directly
StartSensorStream(packet_ids) ==
    LET d1 == start_sensor_stream_write(Driver, packet_ids, now)
    IN  /\ stream_packet_ids' = packet_ids
        /\ serial_open' = d1.serial_open
        /\ wire' = d1.wire
        /\ telemetry' = d1.telemetry
        /\ last_stream_start' = now
        \* _start_stream_reader
        /\ rd' = IF rd.pc = "none" THEN [rd EXCEPT !.pc = "read"] ELSE rd
        /\ UNCHANGED <<stream_buffer, rx, now, last_stream_update, watchdog>>
        /\ UNCHANGED <<callerVars, odoVars, sideVars>>

\* RoombaOI.ensure_sensor_stream(max_stale_sec, restart_cooldown_sec), one
\* call of the watchdog from the telemetry push loop
ensure_sensor_stream_call(max_stale_sec, restart_cooldown_sec) ==
    LET restart == ensure_restarts(serial_open, rd.pc # "none",
                                   last_stream_update, last_stream_start, now,
                                   max_stale_sec, restart_cooldown_sec)
        d1 == start_sensor_stream_write(Driver, stream_packet_ids, now)
    IN  /\ watchdog' =
               [turn |-> 1 - watchdog.turn,
                issued |-> IF restart
                           THEN <<now>> \o SubSeq(watchdog.issued, 1,
                                                  Min(1, Len(watchdog.issued)))
                           ELSE watchdog.issued]
        /\ IF restart THEN
               /\ serial_open' = d1.serial_open
               /\ wire' = d1.wire
               /\ telemetry' = d1.telemetry
               /\ last_stream_start' = now
               /\ rd' = IF rd.pc = "none" THEN [rd EXCEPT !.pc = "read"] ELSE rd
           ELSE
               /\ wire' = <<>>
               /\ UNCHANGED <<serial_open, telemetry, last_stream_start, rd>>
        /\ UNCHANGED <<stream_packet_ids, stream_buffer, rx, now,
                       last_stream_update>>

EnsureSensorStream(max_stale_sec, restart_cooldown_sec) ==
    /\ ensure_sensor_stream_call(max_stale_sec, restart_cooldown_sec)
    /\ UNCHANGED <<callerVars, odoVars, sideVars>>

\* RoombaOI.ensure_sensor_stream when the write of start_sensor_stream
\* raises (an error of the serial port): the packet ids are stored again,
\* nothing is sent, the subscription time is not updated and no reader is
\* started
ensure_sensor_stream_raises(max_stale_sec, restart_cooldown_sec) ==
    /\ ensure_restarts(serial_open, rd.pc # "none", last_stream_update,
                       last_stream_start, now, max_stale_sec,
                       restart_cooldown_sec)
    /\ watchdog' = [watchdog EXCEPT !.turn = 1 - @]
    /\ wire' = <<>>
    /\ UNCHANGED <<serial_open, telemetry, last_stream_start, rd,
                   stream_packet_ids, stream_buffer, rx, now,
                   last_stream_update>>

\* RoombaOI._stream_reader_loop: the read raises and the loop breaks; the
\* thread ends with the buffer as it is
ReaderDies ==
    /\ rd.pc = "read"
    /\ rd' = NoReader
    /\ wire' = <<>>
    /\ UNCHANGED <<serial_open, telemetry, stream_buffer, rx, now,
                   last_stream_update, watchVars>>
    /\ UNCHANGED <<callerVars, odoVars, sideVars>>

\* RoombaOI.close: the reader thread is joined between two reads, the
\* buffer cleared, the stream paused and the port closed
Close ==
    LET d1 == close(Driver, now)
    IN  /\ rd.pc \in {"none", "read"}
        /\ rd' = NoReader
        /\ stream_buffer' = <<>>
        /\ serial_open' = d1.serial_open
        /\ wire' = d1.wire
        /\ telemetry' = d1.telemetry
        /\ UNCHANGED <<rx, now, last_stream_update, watchVars>>
        /\ UNCHANGED <<callerVars, odoVars, sideVars>>

----------------------------------------------------------------------------
(* The stream reader thread.  Its steps are cut where the code takes or    *)
(* releases the telemetry lock: one read, one iteration of the loop of     *)
(* _consume_stream_buffer, one iteration of the loop of                    *)
(* _apply_stream_payload.                                                  *)

\* a reader that keeps the latest chunk only instead of extending the buffer
ReadChunk_replaces_buffer(n) ==
    /\ rd.pc = "read"
    /\ serial_open
    /\ n >= 1 /\ rx.pos + n <= Len(rx.bytes)
    /\ stream_buffer' = SubSeq(rx.bytes, rx.pos + 1, rx.pos + n)
    /\ rx' = [rx EXCEPT !.pos = @ + n]
    /\ rd' = [rd EXCEPT !.pc = "consume"]
    /\ wire' = <<>>
    /\ UNCHANGED <<serial_open, telemetry, now, last_stream_update, watchVars, req, drv,
                   ack, snap>>
    /\ UNCHANGED <<odoVars, sideVars>>

\* RoombaOI._stream_reader_loop: one read of n >= 1 waiting bytes, appended
\* to the buffer
ReadChunk(n) ==
    /\ rd.pc = "read"
    /\ serial_open
    /\ n >= 1 /\ rx.pos + n <= Len(rx.bytes)
    /\ stream_buffer' = stream_buffer \o SubSeq(rx.bytes, rx.pos + 1, rx.pos + n)
    /\ rx' = [rx EXCEPT !.pos = @ + n]
    /\ rd' = [rd EXCEPT !.pc = "consume"]
    /\ wire' = <<>>
    /\ UNCHANGED <<serial_open, telemetry, now, last_stream_update, watchVars, req, drv,
                   ack, snap>>
    /\ UNCHANGED <<odoVars, sideVars>>

\* RoombaOI._consume_stream_buffer: one iteration of its loop
ConsumeStep ==
    /\ rd.pc = "consume"
    /\ IF Len(stream_buffer) < 3 THEN
           \* the loop ends; back to _stream_reader_loop
           /\ rd' = [rd EXCEPT !.pc = "read"]
           /\ UNCHANGED <<stream_buffer, rx>>
       ELSE IF stream_buffer[1] # STREAM_HEADER THEN
           /\ stream_buffer' = Tail(stream_buffer)
           /\ UNCHANGED <<rd, rx>>
       ELSE
           LET payload_len == stream_buffer[2]
               frame_len == payload_len + 3
               frame == SubSeq(stream_buffer, 1, frame_len)
           IN  IF Len(stream_buffer) < frame_len THEN
                   /\ rd' = [rd EXCEPT !.pc = "read"]
                   /\ UNCHANGED <<stream_buffer, rx>>
               ELSE
                   /\ stream_buffer' =
                          SubSeq(stream_buffer, frame_len + 1, Len(stream_buffer))
                   /\ IF ~checksum_ok(frame)
                      THEN /\ rd' = [rd EXCEPT !.frame = frame]
                           /\ UNCHANGED rx
                      ELSE /\ rd' = [pc |-> "apply", frame |-> frame,
                                     payload |-> SubSeq(frame, 3, frame_len - 1),
                                     i |-> 0, pre |-> telemetry]
                           \* rx.applied: the frames handed to
                           \* _apply_stream_payload so far
                           /\ rx' = [rx EXCEPT !.applied = Append(@, frame)]
    /\ wire' = <<>>
    /\ UNCHANGED <<serial_open, telemetry, now, last_stream_update, watchVars, req,
                   drv, ack, snap>>
    /\ UNCHANGED <<odoVars, sideVars>>

\* RoombaOI._apply_stream_payload: one iteration of its loop (one
\* _apply_sensor_packet call, which holds the telemetry lock), or the lines
\* after the loop
ApplyStep ==
    /\ rd.pc = "apply"
    /\ IF rd.i >= Len(rd.payload) THEN
           /\ telemetry' = [telemetry EXCEPT !.timestamp = now]
           /\ last_stream_update' = now
           /\ rd' = [rd EXCEPT !.pc = "consume"]
       ELSE IF ~packet_at(rd.payload, rd.i) THEN
           \* unknown id or truncated packet: return
           /\ rd' = [rd EXCEPT !.pc = "consume"]
           /\ UNCHANGED <<telemetry, last_stream_update>>
       ELSE
           /\ telemetry' = apply_sensor_packet(telemetry, rd.payload[rd.i + 1],
                                               packet_data(rd.payload, rd.i))
           /\ rd' = [rd EXCEPT !.i = @ + 1 + PACKET_SIZE(rd.payload[rd.i + 1])]
           /\ UNCHANGED last_stream_update
    /\ wire' = <<>>
    /\ UNCHANGED <<serial_open, stream_buffer, rx, now, watchVars, req, drv,
                   ack, snap>>
    /\ UNCHANGED <<odoVars, sideVars>>

----------------------------------------------------------------------------
(* The estimator's state after construction, and its operations as actions *)

InitOdometry(sources, scales) ==
    /\ odo \in {InitEstimator(source, linear_scale, angular_scale) :
                   source \in sources, linear_scale \in scales,
                   angular_scale \in scales}
    /\ pose = [x_mm |-> 0, y_mm |-> 0, theta_deg |-> 0,
               last_delta_distance_mm |-> 0, last_delta_angle_deg |-> 0]
    /\ call = [op |-> "__init__", got |-> FALSE]

\* odometry.reset(...); b holds the four baselines
Reset(x_mm, y_mm, theta_deg, b) ==
    /\ odo' = reset(odo, x_mm, y_mm, theta_deg, b.distance, b.angle, b.left, b.right)
    /\ call' = [op |-> "reset", got |-> FALSE, x_mm |-> x_mm, y_mm |-> y_mm,
                theta_deg |-> theta_deg, b |-> b]
    /\ UNCHANGED <<pose, driverVars, callerVars, sideVars>>

\* pose = odometry.update_from_telemetry(tel)
UpdateFromTelemetry(tel) ==
    /\ odo' = update_from_telemetry(odo, tel)
    /\ pose' = snapshot(odo')
    /\ call' = [op |-> "update_from_telemetry", got |-> FALSE, tel |-> tel]
    /\ UNCHANGED <<driverVars, callerVars, sideVars>>

\* pose = odometry.apply_external_pose(...)
ApplyExternalPose(x_mm, y_mm, theta_deg, blend_pos, blend_theta) ==
    /\ odo' = apply_external_pose(odo, x_mm, y_mm, theta_deg, blend_pos,
                                  blend_theta, "external")
    /\ pose' = snapshot(odo')
    /\ call' = [op |-> "apply_external_pose", got |-> FALSE, x_mm |-> x_mm,
                y_mm |-> y_mm, theta_deg |-> theta_deg,
                blend_pos |-> blend_pos, blend_theta |-> blend_theta]
    /\ UNCHANGED <<driverVars, callerVars, sideVars>>

\* odometry.set_collision_plan(plan, robot_radius_mm)
SetCollisionPlan(plan, robot_radius_mm) ==
    /\ odo' = set_collision_plan(odo, plan, robot_radius_mm)
    /\ call' = [op |-> "set_collision_plan", got |-> FALSE,
                robot_radius_mm |-> robot_radius_mm]
    /\ UNCHANGED <<pose, driverVars, callerVars, sideVars>>

\* pose = odometry.get_pose()
GetPose ==
    /\ pose' = snapshot(odo)
    /\ call' = [call EXCEPT !.got = TRUE]
    /\ UNCHANGED <<odo, driverVars, callerVars, sideVars>>

----------------------------------------------------------------------------
(* The JsonlHistoryStore: one JSON object per line of its file.  A line   *)
(* is the record that json.loads gives back for it; the numbers of a      *)
(* record are the estimator's floats, which float() returns as they are.  *)

\* append: the entry is {"ts": now, **payload}, written as one more line
append(lines, payload, ts) == Append(lines, payload @@ [ts |-> ts])

\* the events of one operation given to the sink one after the other
append_all(lines, events, ts) ==
    lines \o [k \in 1..Len(events) |-> events[k] @@ [ts |-> ts]]

\* clear: the file is rewritten empty
clear(lines) == <<>>

PoseKeys == {"x_mm", "y_mm", "theta_deg"}

\* a scan from the oldest line on
RECURSIVE last_pose_oldest_from(_, _)
last_pose_oldest_from(lines, i) ==
    IF i > Len(lines) THEN None
    ELSE IF PoseKeys \subseteq DOMAIN lines[i]
    THEN Some([x_mm |-> lines[i].x_mm, y_mm |-> lines[i].y_mm,
               theta_deg |-> lines[i].theta_deg])
    ELSE last_pose_oldest_from(lines, i + 1)

last_pose_oldest(lines) == last_pose_oldest_from(lines, 1)

\* last_pose: `for line in reversed(lines)`, the first record that has the
\* three keys
RECURSIVE last_pose_from(_, _)
last_pose_from(lines, i) ==
    IF i = 0 THEN None
    ELSE IF PoseKeys \subseteq DOMAIN lines[i]
    THEN Some([x_mm |-> lines[i].x_mm, y_mm |-> lines[i].y_mm,
               theta_deg |-> lines[i].theta_deg])
    ELSE last_pose_from(lines, i - 1)

last_pose(lines) == last_pose_from(lines, Len(lines))

----------------------------------------------------------------------------
(* The estimator called from several threads (the request handlers run in *)
(* a thread pool).  An operation is cut where another thread can run: the *)
(* snapshot taken before the call, the acquisition of self._lock, the     *)
(* call of the history sink, the release of the lock.                     *)

\* the most operations the threads start
MaxThreadOps == 3
\* the most frames the robot sends meanwhile
MaxFrames == 2

\* the order in which the driver produced two snapshots: these frames only
\* raise the encoder counts
produced(tel) == tel.left_encoder_counts

\* the baselines reset_odometry gives to reset: the accumulators of the
\* telemetry record it read
telemetry_baselines(tel) ==
    [distance |-> IF "total_distance_mm" \in DOMAIN tel
                  THEN Some(tel.total_distance_mm * PosScale) ELSE None,
     angle |-> IF "total_angle_deg" \in DOMAIN tel
               THEN Some(tel.total_angle_deg * AngScale) ELSE None,
     left |-> IF "left_encoder_counts" \in DOMAIN tel
              THEN Some(tel.left_encoder_counts) ELSE None,
     right |-> IF "right_encoder_counts" \in DOMAIN tel
               THEN Some(tel.right_encoder_counts) ELSE None]

\* get_odometry, telemetry (name "update") and reset_odometry (name
\* "reset"): the handler takes the snapshot, then calls the estimator
ThreadSnapshot(t, name) ==
    /\ threads.pc[t] = "idle"
    /\ threads.started < MaxThreadOps
    /\ threads' = [threads EXCEPT
                      !.pc[t] = "call",
                      !.op[t] = [name |-> name,
                                 tel |-> get_telemetry_snapshot(Driver)],
                      !.outcome[t] = "none",
                      !.returned[t] = "nothing",
                      !.started = @ + 1]
    /\ UNCHANGED <<driverVars, callerVars, odoVars, journal, detector, plans, linkVars>>

\* the marker detector calls apply_external_pose
ThreadCallExternal(t, x_mm, y_mm, theta_deg) ==
    /\ threads.pc[t] = "idle"
    /\ threads.started < MaxThreadOps
    /\ threads' = [threads EXCEPT
                      !.pc[t] = "call",
                      !.op[t] = [name |-> "external", x_mm |-> x_mm,
                                 y_mm |-> y_mm, theta_deg |-> theta_deg],
                      !.outcome[t] = "none",
                      !.returned[t] = "nothing",
                      !.started = @ + 1]
    /\ UNCHANGED <<driverVars, callerVars, odoVars, journal, detector, plans, linkVars>>

\* the estimator after the body of the operation op
thread_operation(o, op) ==
    IF op.name = "update" THEN update_from_telemetry(o, op.tel)
    ELSE IF op.name = "reset" THEN
        LET b == telemetry_baselines(op.tel)
        IN  reset(o, 0, 0, 0, b.distance, b.angle, b.left, b.right)
    ELSE apply_external_pose(o, op.x_mm, op.y_mm, op.theta_deg, 35, 20,
                             "aruco_snap")

\* `with self._lock:` is entered and the body runs up to the call of
\* _write_history_locked, which happens inside the with block; a get_pose
\* called by the sink waits for the same lock
ThreadEnter(t) ==
    /\ threads.lock = "free"
    /\ threads.pc[t] \in {"call", "sink_get_pose"}
    /\ IF threads.pc[t] = "sink_get_pose" THEN
           /\ threads' = [threads EXCEPT !.pc[t] = "unlock"]
           /\ UNCHANGED odo
       ELSE
           /\ odo' = thread_operation(odo, threads.op[t])
           /\ threads' = [threads EXCEPT
                  !.lock = t,
                  !.pc[t] = IF odo'.history # <<>> THEN "sink" ELSE "unlock",
                  !.applied = IF threads.op[t].name = "update"
                              THEN produced(threads.op[t].tel) ELSE @]
    /\ UNCHANGED <<driverVars, callerVars, pose, call, journal, detector, plans, linkVars>>

\* the sink (JsonlHistoryStore.append) runs and appends the event, or
\* raises an error of the file system
ThreadSink(t, outcome) ==
    /\ threads.pc[t] = "sink"
    /\ journal' = IF outcome = "appended"
                  THEN [journal EXCEPT !.lines = append_all(@, odo.history, now)]
                  ELSE journal
    /\ IF write_history_locked(outcome) = "return"
       THEN threads' = [threads EXCEPT !.pc[t] = "unlock",
                                       !.outcome[t] = outcome]
       ELSE \* the error leaves the with block and the operation
            threads' = [threads EXCEPT !.pc[t] = "idle", !.lock = "free",
                                       !.outcome[t] = outcome,
                                       !.returned[t] = "raised"]
    /\ UNCHANGED <<driverVars, callerVars, odoVars, detector, plans, linkVars>>

\* a sink that calls back into the estimator: its get_pose asks for the lock
ThreadSinkCallsBack(t) ==
    /\ threads.pc[t] = "sink"
    /\ threads' = [threads EXCEPT !.pc[t] = "sink_get_pose"]
    /\ UNCHANGED <<driverVars, callerVars, odoVars, journal, detector, plans, linkVars>>

\* the with block is left: the lock is released and the operation returns
ThreadLeave(t) ==
    /\ threads.pc[t] = "unlock"
    /\ threads' = [threads EXCEPT !.pc[t] = "idle", !.lock = "free",
                                  !.returned[t] = "normally"]
    /\ pose' = IF threads.op[t].name = "reset" THEN pose ELSE snapshot(odo)
    /\ UNCHANGED <<driverVars, callerVars, odo, call, journal, detector, plans, linkVars>>

vars == <<serial_open, wire, telemetry, stream_buffer, rx, rd, now,
          last_stream_update, last_stream_start, stream_packet_ids, watchdog,
          req, drv, ack, snap, odo, pose, call,
          threads, journal, detector, plans, push, writers, readers,
          increments>>

----------------------------------------------------------------------------
(* SpecCtl: the control dispatcher driving the driver, while decoded       *)
(* packet-7 frames change the bumper bits.                                 *)

CtlVelocities == {-200, 0, 200}
CtlRadii == {32768, -1, 1, 220}

CtlMessages ==
    {[action |-> "drive", velocity |-> v, radius |-> r] :
         v \in CtlVelocities, r \in CtlRadii}
    \cup {[action |-> a] : a \in {"ping", "init", "stop", "clean", "dock",
                                  "invalid"}}
    \cup {[action |-> "mode", value |-> x] :
              x \in {"safe", "full", "turbo", "FULL"}}
    \cup {[action |-> "STOP"]}
    \cup {[velocity |-> 200]}

\* packet 7 with every combination of the two bump bits
BumpPayloads == {<<7, bits>> : bits \in 0..3}

InitCtl == InitDriver /\ InitCallers /\ InitOdometry({"encoders"}, {PctScale})

NextCtl ==
    \/ \E message \in CtlMessages : HandleControlMessage(message)
    \/ \E payload \in BumpPayloads : ApplyStreamPayload(payload)

SpecCtl == InitCtl /\ [][NextCtl]_vars

----------------------------------------------------------------------------
(* SpecDrive: RoombaOI.drive called with operands around every saturation  *)
(* limit and with the three special radii.                                 *)

DriveVelocities == {-40000, -501, -500, -1, 0, 1, 250, 500, 501, 40000}
DriveRadii == {-40000, -2001, -2000, -2, -1, 0, 1, 2, 2000, 2001, 32767,
               32768, 32769}

NextDrive ==
    \E velocity \in DriveVelocities, radius \in DriveRadii :
        Drive(velocity, radius)

SpecDrive == InitCtl /\ [][NextDrive]_vars

----------------------------------------------------------------------------
(* SpecStream: the robot sends a byte stream, the reader thread reads it   *)
(* in chunks of any size and decodes it, while other threads take          *)
(* snapshots of the telemetry.                                             *)

\* a well-formed stream frame around a payload: header, length, payload and
\* the checksum byte that makes the bytes sum to 0 mod 256
Frame(payload) ==
    <<STREAM_HEADER, Len(payload)>> \o payload
        \o <<(256 - ((STREAM_HEADER + Len(payload) + SumSeq(payload)) % 256)) % 256>>

FrameBump == Frame(<<7, 1>>)
FrameSensors == Frame(<<7, 2, 8, 1>>)
FrameCliff == Frame(<<9, 1>>)
FrameUnknown == Frame(<<8, 1, 99, 0>>)
\* FrameBump with a corrupted checksum byte
BadFrame == <<STREAM_HEADER, 2, 7, 1, 228>>
\* a stray header byte and length byte in front of a well-formed frame
StrayThenCliff == <<STREAM_HEADER, 5>> \o FrameCliff \o <<0>>

StreamItems ==
    {FrameBump, FrameSensors, FrameCliff, FrameUnknown, BadFrame,
     StrayThenCliff, <<0>>}

StreamInputs == {a \o b : a \in StreamItems, b \in StreamItems}

InitStream ==
    /\ serial_open = FALSE
    /\ wire = <<>>
    /\ telemetry = InitTelemetry
    /\ stream_buffer = <<>>
    /\ rx \in {[bytes |-> b, pos |-> 0, applied |-> <<>>, at |-> 0] : b \in StreamInputs}
    /\ rd = NoReader
    /\ now = 1
    /\ last_stream_update = 0
    /\ last_stream_start = 0
    /\ stream_packet_ids = STREAM_PACKETS_DEFAULT
    /\ watchdog = [turn |-> 0, issued |-> <<>>]
    /\ InitCallers
    /\ InitOdometry({"encoders"}, {PctScale})

NextStream ==
    \/ HandleControlMessage([action |-> "init"])
    \/ \E n \in 1..MaxChunk : ReadChunk(n)
    \/ ConsumeStep
    \/ ApplyStep
    \/ GetTelemetrySnapshot
    \/ Tick

SpecStream == InitStream /\ [][NextStream]_vars

----------------------------------------------------------------------------
(* SpecOdo: the estimator without a plan, under resets, updates from       *)
(* encoder counts and from the scalar accumulators, and external poses.    *)

\* the most operations on the estimator in a behaviour of SpecOdo
MaxOps == 2

NoBaselines == [distance |-> None, angle |-> None, left |-> None, right |-> None]

OdoThetas == {0, 90 * AngScale, 180 * AngScale, 270 * AngScale}

OdoBaselines ==
    {NoBaselines,
     [distance |-> Some(0), angle |-> Some(0), left |-> Some(-1),
      right |-> Some(65535)],
     telemetry_baselines([left_encoder_counts |-> 0, right_encoder_counts |-> 0,
                          total_angle_deg |-> 0]),
     telemetry_baselines([total_distance_mm |-> 100, total_angle_deg |-> 180])}

EncoderReadings == {0, 1, 32768, 65535}

OdoTelemetry ==
    {[left_encoder_counts |-> l, right_encoder_counts |-> r,
      bump_left |-> b, bump_right |-> FALSE, total_angle_deg |-> 0,
      timestamp |-> 1] :
        l \in EncoderReadings, r \in EncoderReadings, b \in BOOLEAN}
    \cup {[total_distance_mm |-> d, total_angle_deg |-> a, timestamp |-> 1] :
             d \in {0, 100, -100}, a \in {0, 180, -90}}

ExternalBlends == {<<35, 20>>, <<100, 100>>, <<150, -10>>}

InitOdo ==
    InitDriver /\ InitCallers /\ InitOdometry({"encoders", "odometry"}, {PctScale})

OdoReset ==
    /\ odo.ops < MaxOps
    /\ \E theta \in OdoThetas, b \in OdoBaselines : Reset(0, 0, theta, b)

OdoUpdate ==
    /\ odo.ops < MaxOps
    /\ \E tel \in OdoTelemetry : UpdateFromTelemetry(tel)

OdoExternalPose ==
    /\ odo.ops < MaxOps
    /\ \E theta \in {180 * AngScale, -90 * AngScale}, blend \in ExternalBlends :
           ApplyExternalPose(100 * PosScale, 0, theta, blend[1], blend[2])

NextOdo == OdoReset \/ OdoUpdate \/ OdoExternalPose \/ GetPose

SpecOdo == InitOdo /\ [][NextOdo]_vars

----------------------------------------------------------------------------
(* SpecClamp: the estimator on the scalar accumulators with a collision    *)
(* plan: a room of 100 mm by 40 mm, alone or with a thin obstacle of 4 mm  *)
(* by 20 mm in the middle.                                                 *)

\* the most operations on the estimator in a behaviour of SpecClamp
MaxClampOps == 3

Millimetres(points) ==
    [k \in 1..Len(points) |-> <<points[k][1] * PosScale, points[k][2] * PosScale>>]

\* the contour, closed by a repeat of its first point
RoomContour == Millimetres(<<<<0, 0>>, <<100, 0>>, <<100, 40>>, <<0, 40>>, <<0, 0>>>>)

ThinObstacle == Millimetres(<<<<-2, -10>>, <<2, -10>>, <<2, 10>>, <<-2, 10>>>>)

PlanRoom == [contour |-> RoomContour, objects |-> <<>>]

PlanThinObstacle ==
    [contour |-> RoomContour,
     objects |-> <<[shape_ref |-> "post", x_mm |-> 50 * PosScale,
                    y_mm |-> 20 * PosScale, theta_deg |-> 0]>>,
     object_shapes |-> [post \in {"post"} |-> [contour |-> ThinObstacle]]]

ClampPlans == {Some(PlanRoom), Some(PlanThinObstacle)}

ClampRadii == {0, 10 * PosScale}

\* start poses <<x, y, theta>>
ClampStarts ==
    {<<40 * PosScale, 20 * PosScale, 0>>,
     <<20 * PosScale, 20 * PosScale, -90 * AngScale>>,
     <<20 * PosScale, 11 * PosScale, -1626>>,
     <<20 * PosScale, 950, -1626>>}

ClampTelemetry ==
    {[total_distance_mm |-> d, total_angle_deg |-> 0, timestamp |-> 1] :
         d \in {5, 15, 20, -20}}

ScalarBaselines ==
    [distance |-> Some(0), angle |-> Some(0), left |-> None, right |-> None]

InitClamp == InitDriver /\ InitCallers /\ InitOdometry({"odometry"}, {PctScale})

ClampSetPlan ==
    /\ odo.ops < MaxClampOps
    /\ \E plan \in ClampPlans, r \in ClampRadii : SetCollisionPlan(plan, r)

ClampReset ==
    /\ odo.ops < MaxClampOps
    /\ \E s \in ClampStarts : Reset(s[1], s[2], s[3], ScalarBaselines)

ClampUpdate ==
    /\ odo.ops < MaxClampOps
    /\ \E tel \in ClampTelemetry : UpdateFromTelemetry(tel)

\* positions <<x, y>> an external pose may name: one free of every wall, the
\* middle of the thin obstacle, one 5 mm from a wall
ClampTargets ==
    {<<20 * PosScale, 20 * PosScale>>, <<50 * PosScale, 20 * PosScale>>,
     <<20 * PosScale, 5 * PosScale>>}

ClampBlends == {<<PctScale, PctScale>>, <<35, 20>>}

ClampExternalPose ==
    /\ odo.ops < MaxClampOps
    /\ \E p \in ClampTargets, theta \in {180 * AngScale, 90 * AngScale},
          blend \in ClampBlends :
           ApplyExternalPose(p[1], p[2], theta, blend[1], blend[2])

NextClamp ==
    ClampSetPlan \/ ClampReset \/ ClampUpdate \/ ClampExternalPose \/ GetPose

SpecClamp == InitClamp /\ [][NextClamp]_vars

----------------------------------------------------------------------------
(* SpecScale: the estimator on the scalar accumulators with calibration    *)
(* scales of 0.5, 1 and 2, without a plan.                                 *)

CalibrationScales == {50, PctScale, 200}

ScaleTelemetry ==
    {[total_distance_mm |-> d, total_angle_deg |-> a, timestamp |-> 1] :
         d \in {0, 100, -40}, a \in {0, 40, -60}}

InitScale ==
    InitDriver /\ InitCallers
        /\ InitOdometry({"odometry", "distance_angle"}, CalibrationScales)

ScaleReset ==
    /\ odo.ops < MaxOps
    /\ \E theta \in {0, 90 * AngScale} : Reset(0, 0, theta, ScalarBaselines)

ScaleUpdate ==
    /\ odo.ops < MaxOps
    /\ \E tel \in ScaleTelemetry : UpdateFromTelemetry(tel)

NextScale == ScaleReset \/ ScaleUpdate \/ GetPose

SpecScale == InitScale /\ [][NextScale]_vars

----------------------------------------------------------------------------
(* SpecBattery: decoded frames carrying packets 25 (charge) and 26         *)
(* (capacity) with 16-bit values at both ends of the range and around the  *)
(* halves of a percent.                                                    *)

BatteryValues == {0, 1, 2, 3, 200, 65535}

\* packet 25 or 26 alone, or both in one frame
BatteryPayloads ==
    {<<id>> \o int16_bytes(v) : id \in {25, 26}, v \in BatteryValues}
    \cup {<<25>> \o int16_bytes(c) \o <<26>> \o int16_bytes(k) :
              c \in {199, 65535}, k \in {0, 200}}

NextBattery ==
    \/ \E payload \in BatteryPayloads : ApplyStreamPayload(payload)
    \/ Tick

SpecBattery == InitCtl /\ [][NextBattery]_vars

----------------------------------------------------------------------------
(* SpecWatchdog: the push loop calls the watchdog at any moment while the  *)
(* link is opened by init, frames arrive or fail to, the reader thread     *)
(* dies, and the driver is closed.  The clock counts seconds.              *)

\* the clock stops advancing here
MaxWatchdogTime == 7

\* packet ids a caller subscribes to instead of the default list
WatchdogPacketIds == <<7, 43, 44>>

\* a frame the reader thread decodes: a valid one (packet 7), and one with
\* an unknown packet id, which _apply_stream_payload leaves early
WatchdogPayloads == {<<7, 0>>, <<99>>}

WatchdogFrame ==
    /\ rd.pc = "read"
    /\ serial_open
    /\ \E payload \in WatchdogPayloads : ApplyStreamPayload(payload)

NextWatchdog ==
    \/ EnsureSensorStream(MAX_STALE_SEC, RESTART_COOLDOWN_SEC)
    \/ \E action \in {"init", "clean"} :
           HandleControlMessage([action |-> action])
    \/ StartSensorStream(WatchdogPacketIds)
    \/ WatchdogFrame
    \/ ReaderDies
    \/ Close
    \/ ClockAdvance(MaxWatchdogTime)

SpecWatchdog == InitCtl /\ [][NextWatchdog]_vars

----------------------------------------------------------------------------
(* SpecLink: control messages reach a driver that was never connected, is  *)
(* connected, or has been closed.                                          *)

NextLink ==
    \/ \E message \in CtlMessages : HandleControlMessage(message)
    \/ \E k \in 1..Len(InitSteps) : HandleInitRaising(InitSteps[k])
    \/ Close
    \/ Tick

SpecLink == InitCtl /\ [][NextLink]_vars

----------------------------------------------------------------------------
(* SpecAck: drive messages with operands around every saturation limit    *)
(* and with the three special radii, under every state of the bumpers.    *)

NextAck ==
    \/ \E velocity \in DriveVelocities, radius \in DriveRadii :
           HandleControlMessage([action |-> "drive", velocity |-> velocity,
                                 radius |-> radius])
    \/ \E payload \in BumpPayloads : ApplyStreamPayload(payload)

SpecAck == InitCtl /\ [][NextAck]_vars

----------------------------------------------------------------------------
(* SpecThreads: two handler threads call the estimator while the robot    *)
(* sends frames with rising encoder counts.                               *)

\* frame k of the robot: both encoder counts at 10 k
FeedFrame ==
    \E k \in 1..MaxFrames :
        /\ telemetry.left_encoder_counts = 10 * (k - 1)
        /\ ApplyStreamPayload(<<43, 0, 10 * k, 44, 0, 10 * k>>)

NextThreads ==
    \/ \E t \in Threads, name \in {"update", "reset"} : ThreadSnapshot(t, name)
    \/ \E t \in Threads : ThreadCallExternal(t, 20 * PosScale, 0, 90 * AngScale)
    \/ \E t \in Threads : ThreadEnter(t)
    \/ \E t \in Threads, outcome \in {"appended", "raises"} :
           ThreadSink(t, outcome)
    \/ \E t \in Threads : ThreadSinkCallsBack(t)
    \/ \E t \in Threads : ThreadLeave(t)
    \/ FeedFrame

SpecThreads == InitCtl /\ [][NextThreads]_vars

----------------------------------------------------------------------------
(* SpecDetector: the camera stream offers JPEG frames to the marker       *)
(* detector while its worker thread takes them from the queue.            *)

\* queue.Queue(maxsize=2)
QueueMaxsize == 2
\* the most frames the camera offers
MaxCameraFrames == 5
\* the sizes of the offered frames in bytes: b"" and a JPEG image
FrameSizes == {0, 3}

\* a LIFO queue: get returns the newest item
queue_get_newest(q) ==
    [item |-> q[Len(q)], rest |-> SubSeq(q, 1, Len(q) - 1)]

\* Queue.get / get_nowait on a queue that is not empty: the oldest item
queue_get(q) == [item |-> Head(q), rest |-> Tail(q)]

\* enqueue_jpeg_frame up to its first put_nowait: an ignored frame, a frame
\* put on the queue, or queue.Full
EnqueueJpegFrame(size) ==
    /\ detector.pc = "idle"
    /\ detector.arrived < MaxCameraFrames
    /\ LET frame == [n |-> detector.arrived + 1, size |-> size]
           offered == [detector EXCEPT !.arrived = @ + 1, !.frame = frame]
       IN  detector' =
               IF ~detector.enabled \/ size = 0 THEN offered
               ELSE IF Len(detector.queue) < QueueMaxsize
               THEN [offered EXCEPT !.queue = Append(@, frame),
                                    !.last = frame.n]
               ELSE [offered EXCEPT !.pc = "full"]
    /\ UNCHANGED <<driverVars, callerVars, odoVars, threads, journal, plans, linkVars>>

\* after queue.Full: get_nowait removes an item unless the worker emptied
\* the queue meanwhile
EnqueueFullGet ==
    /\ detector.pc = "full"
    /\ detector' =
           IF detector.queue = <<>> THEN [detector EXCEPT !.pc = "retry"]
           ELSE LET got == queue_get(detector.queue)
                IN  [detector EXCEPT !.pc = "retry", !.queue = got.rest,
                                     !.dropped = @ \cup {got.item.n}]
    /\ UNCHANGED <<driverVars, callerVars, odoVars, threads, journal, plans, linkVars>>

\* the second put_nowait; its error, if the queue is full again, is
\* swallowed and the frame is lost
EnqueueFullPut ==
    /\ detector.pc = "retry"
    /\ detector' =
           IF Len(detector.queue) < QueueMaxsize
           THEN [detector EXCEPT !.pc = "idle",
                                 !.queue = Append(@, detector.frame),
                                 !.last = detector.frame.n]
           ELSE [detector EXCEPT !.pc = "idle",
                                 !.dropped = @ \cup {detector.frame.n}]
    /\ UNCHANGED <<driverVars, callerVars, odoVars, threads, journal, plans, linkVars>>

\* _worker_loop: the worker, started only when the service is enabled,
\* takes a frame and runs the detection on it
WorkerLoop ==
    /\ detector.enabled
    /\ detector.queue # <<>>
    /\ LET got == queue_get(detector.queue)
       IN  detector' = [detector EXCEPT !.queue = got.rest,
                                        !.received = Append(@, got.item.n)]
    /\ UNCHANGED <<driverVars, callerVars, odoVars, threads, journal, plans, linkVars>>

InitDetector ==
    /\ InitDriver
    /\ InitRequests
    /\ InitEstimatorCallers
    /\ InitOdometry({"encoders"}, {PctScale})
    /\ \E enabled \in BOOLEAN : detector = ArucoService(enabled)

NextDetector ==
    \/ \E size \in FrameSizes : EnqueueJpegFrame(size)
    \/ EnqueueFullGet
    \/ EnqueueFullPut
    \/ WorkerLoop

SpecDetector == InitDetector /\ [][NextDetector]_vars

----------------------------------------------------------------------------
(* SpecPlan: plans are posted to /api/plan/load-json while the robot      *)
(* moves and the pose is read.  A JSON value is a record with its kind;   *)
(* a list has items, an object has the keys the code reads, and an        *)
(* absent key reads as null (dict.get).                                   *)

\* the most plans posted
MaxLoads == 2

JsonNull == [kind |-> "null"]
JsonList(items) == [kind |-> "list", items |-> items]
JsonPoint(x, y) == JsonList(<<x, y>>)

\* contours: a room, a triangle, two points, no list, and triangles with a
\* point of three numbers, a point that is an object, a point that is a
\* number
PlanContours ==
    {JsonList(<<JsonPoint(0, 0), JsonPoint(2000, 0), JsonPoint(2000, 2000),
                JsonPoint(0, 2000)>>),
     JsonList(<<JsonPoint(0, 0), JsonPoint(2000, 0), JsonPoint(0, 2000)>>),
     JsonList(<<JsonPoint(0, 0), JsonPoint(2000, 0)>>),
     JsonList(<<>>),
     JsonNull,
     [kind |-> "string"],
     JsonList(<<JsonPoint(0, 0), JsonList(<<2000, 0, 0>>), JsonPoint(0, 2000)>>),
     JsonList(<<JsonPoint(0, 0), JsonPoint(2000, 0),
                [kind |-> "object", x |-> 0, y |-> 2000]>>),
     JsonList(<<JsonPoint(0, 0), JsonPoint(2000, 0), JsonPoint(0, 2000),
                [kind |-> "number"]>>)}

PlanStartPoses ==
    {JsonNull, [kind |-> "object", x_mm |-> 500, y_mm |-> 0, theta_deg |-> 90]}

PlanPayloads ==
    {JsonList(<<>>), [kind |-> "string"]}
    \cup {[kind |-> "object", contour |-> c, start_pose |-> p] :
              c \in PlanContours, p \in PlanStartPoses}

\* a validation that only asks for a list of points
validate_any_length(payload) ==
    IF payload.kind # "object" THEN "Plan must be a JSON object."
    ELSE IF payload.contour.kind # "list"
    THEN "Plan must contain contour with at least 3 points."
    ELSE IF \E i \in 1..Len(payload.contour.items) :
                LET p == payload.contour.items[i]
                IN  ~(p.kind = "list" /\ Len(p.items) = 2)
    THEN "Each contour point must be [x, y]."
    ELSE ""

\* PlanManager._validate: the message of the ValueError, "" when none
validate(payload) ==
    IF payload.kind # "object" THEN "Plan must be a JSON object."
    ELSE IF payload.contour.kind # "list" \/ Len(payload.contour.items) < 3
    THEN "Plan must contain contour with at least 3 points."
    ELSE IF \E i \in 1..Len(payload.contour.items) :
                LET p == payload.contour.items[i]
                IN  ~(p.kind = "list" /\ Len(p.items) = 2)
    THEN "Each contour point must be [x, y]."
    ELSE ""

\* PlanManager.load_from_json: the plan kept in memory afterwards
load_from_json(plan, payload) ==
    IF validate(payload) # "" THEN plan ELSE Some(payload)

\* (plan or {}).get("start_pose") or {}, then .get(key, 0) of each key
start_pose(plan) ==
    IF plan.start_pose.kind = "object"
    THEN [x_mm |-> plan.start_pose.x_mm, y_mm |-> plan.start_pose.y_mm,
          theta_deg |-> plan.start_pose.theta_deg]
    ELSE [x_mm |-> 0, y_mm |-> 0, theta_deg |-> 0]

\* POST /api/plan/load-json
LoadPlanJson(payload) ==
    /\ plans.loads < MaxLoads
    /\ LET error == validate(payload)
       IN  IF error # "" THEN
               /\ plans' = [plans EXCEPT
                                !.request = payload,
                                !.response = [ok |-> FALSE, error |-> error],
                                !.loads = @ + 1]
               /\ UNCHANGED odoVars
           ELSE
               LET origin == start_pose(payload)
                   b == telemetry_baselines(get_telemetry_snapshot(Driver))
               IN  /\ plans' = [plan |-> load_from_json(plans.plan, payload),
                                request |-> payload,
                                response |-> [ok |-> TRUE],
                                loads |-> plans.loads + 1]
                   /\ odo' = reset(odo, origin.x_mm * PosScale,
                                   origin.y_mm * PosScale,
                                   origin.theta_deg * AngScale,
                                   b.distance, b.angle, b.left, b.right)
                   /\ call' = [op |-> "reset", got |-> FALSE,
                               x_mm |-> origin.x_mm * PosScale,
                               y_mm |-> origin.y_mm * PosScale,
                               theta_deg |-> origin.theta_deg * AngScale,
                               b |-> b]
                   /\ UNCHANGED pose
    /\ UNCHANGED <<driverVars, callerVars, threads, journal, detector, linkVars>>

\* GET /api/odometry
GetOdometry ==
    /\ odo.ops < MaxOps
    /\ UpdateFromTelemetry(get_telemetry_snapshot(Driver))

NextPlan ==
    \/ \E payload \in PlanPayloads : LoadPlanJson(payload)
    \/ GetOdometry
    \/ FeedFrame

SpecPlan == InitCtl /\ [][NextPlan]_vars

----------------------------------------------------------------------------
(* SpecJournal: records are appended to the journal, it is cleared, and   *)
(* the last pose is read back from it.                                    *)

\* the most operations on the journal
MaxJournalOps == 4

\* records with the three pose keys (a reset and an update event of the
\* estimator), and records that lack all or one of them
JournalPayloads ==
    {[event |-> "reset", x_mm |-> 10 * PosScale, y_mm |-> 20 * PosScale,
      theta_deg |-> 0],
     [event |-> "update", distance_mm |-> 30 * PosScale,
      angle_deg |-> 5 * AngScale, x_mm |-> 40 * PosScale,
      y_mm |-> 20 * PosScale, theta_deg |-> 5 * AngScale,
      source |-> "distance_angle", collision_clamped |-> FALSE],
     [event |-> "note"],
     [event |-> "partial", x_mm |-> 70 * PosScale, y_mm |-> 70 * PosScale]}

\* store.append(payload)
JournalAppend(payload) ==
    /\ journal.ops < MaxJournalOps
    /\ journal' = [journal EXCEPT !.lines = append(@, payload, now),
                                  !.op = "append", !.ops = @ + 1]
    /\ UNCHANGED <<driverVars, callerVars, odoVars, threads, detector, plans, linkVars>>

\* store.clear()
JournalClear ==
    /\ journal.ops < MaxJournalOps
    /\ journal' = [journal EXCEPT !.lines = clear(@), !.op = "clear",
                                  !.ops = @ + 1]
    /\ UNCHANGED <<driverVars, callerVars, odoVars, threads, detector, plans, linkVars>>

\* store.last_pose()
JournalLastPose ==
    /\ journal.ops < MaxJournalOps
    /\ journal' = [journal EXCEPT !.read = last_pose(journal.lines),
                                  !.op = "last_pose", !.ops = @ + 1]
    /\ UNCHANGED <<driverVars, callerVars, odoVars, threads, detector, plans, linkVars>>

\* _plan_start_pose()
plan_start_pose ==
    IF plans.plan = None THEN [x_mm |-> 0, y_mm |-> 0, theta_deg |-> 0]
    ELSE start_pose(plans.plan[1])

\* POST /api/odometry/reset-history: the journal is cleared, then the
\* estimator is reset and its reset event goes to the sink
ResetOdometryHistory ==
    /\ journal.ops < MaxJournalOps
    /\ LET origin == plan_start_pose
           b == telemetry_baselines(get_telemetry_snapshot(Driver))
       IN  /\ odo' = reset(odo, origin.x_mm * PosScale, origin.y_mm * PosScale,
                           origin.theta_deg * AngScale,
                           b.distance, b.angle, b.left, b.right)
           /\ call' = [op |-> "reset", got |-> FALSE,
                       x_mm |-> origin.x_mm * PosScale,
                       y_mm |-> origin.y_mm * PosScale,
                       theta_deg |-> origin.theta_deg * AngScale, b |-> b]
           /\ journal' = [journal EXCEPT
                              !.lines = append_all(clear(@), odo'.history, now),
                              !.op = "reset-history", !.ops = @ + 1]
           /\ pose' = snapshot(odo')
    /\ UNCHANGED <<driverVars, callerVars, threads, detector, plans, linkVars>>

NextJournal ==
    \/ \E payload \in JournalPayloads : JournalAppend(payload)
    \/ JournalClear
    \/ JournalLastPose
    \/ ResetOdometryHistory

SpecJournal == InitCtl /\ [][NextJournal]_vars

----------------------------------------------------------------------------
(* SpecDecode: checksum-valid frames whose payload holds whole packets,   *)
(* then perhaps an unknown packet id or a packet cut short by the end of  *)
(* the payload, then more bytes.                                          *)

\* whole packets: the bumper bits, the wall byte, the left cliff byte
DecodePackets == {<<7, 1>>, <<7, 2>>, <<8, 1>>, <<9, 1>>, <<9, 0>>}

\* where the decoding stops: an id outside the table followed by bytes
\* that read as packets, and the packets 25 (two data bytes) and 43 cut
\* short
DecodeStops ==
    {<<>>, <<99, 0, 9, 1>>, <<0, 7, 3>>, <<25, 1>>, <<43, 0>>, <<9>>}

DecodePayloads ==
    {a \o b \o cut : a \in DecodePackets \cup {<<>>},
                      b \in DecodePackets \cup {<<>>}, cut \in DecodeStops}

\* the reader thread hands the payload of a frame to _apply_stream_payload,
\* which runs to its end
DecodeFrame(payload) ==
    /\ rd' = [rd EXCEPT !.payload = payload]
    /\ telemetry' = apply_stream_payload(telemetry, payload, 0, now)
    /\ last_stream_update' =
               IF payload_complete(payload, 0) THEN now ELSE last_stream_update
    /\ wire' = <<>>
    /\ UNCHANGED <<serial_open, stream_buffer, rx, now, watchVars,
                   req, drv, ack, snap>>
    /\ UNCHANGED <<odoVars, sideVars>>

NextDecode ==
    \/ \E payload \in DecodePayloads : DecodeFrame(payload)
    \/ Tick

SpecDecode == InitCtl /\ [][NextDecode]_vars

----------------------------------------------------------------------------
(* SpecPath: the estimator as constructed (no plan, scales 1) fed with     *)
(* readings of the scalar accumulators that go forward and turn by right   *)
(* angles.                                                                 *)

\* the most updates of one path
MaxPathOps == 4

PathTelemetry ==
    {[total_distance_mm |-> d, total_angle_deg |-> a, timestamp |-> 1] :
         d \in {0, 100, 200}, a \in {0, 90}}

PathUpdate ==
    /\ odo.ops < MaxPathOps
    /\ \E tel \in PathTelemetry : UpdateFromTelemetry(tel)

NextPath == PathUpdate \/ GetPose

SpecPath == InitCtl /\ [][NextPath]_vars

----------------------------------------------------------------------------
(* SpecPush: the telemetry push loop of one subscriber, with a reader     *)
(* thread that may die, a link that may be closed and a port whose write  *)
(* may fail.                                                              *)

\* the most iterations of the push loop
MaxPushIters == 3
\* the clock of this specification stops here
MaxPushTime == 5

\* a loop without the try/except around the watchdog
watchdog_error_propagates(outcome) ==
    IF outcome = "raises" THEN "raise" ELSE "continue"

\* telemetry_stream, `try: roomba.ensure_sensor_stream() except Exception:
\* pass`: what the loop does after the call
watchdog_error(outcome) == "continue"

\* await websocket.accept(), then the first iteration
PushAccept ==
    /\ push.pc = "idle"
    /\ push' = [push EXCEPT !.pc = "watchdog", !.iter = 1]
    /\ wire' = <<>>
    /\ UNCHANGED <<serial_open, telemetry, stream_buffer, rx, rd, now,
                   last_stream_update, watchVars>>
    /\ UNCHANGED <<callerVars, odoVars, threads, journal, detector, plans,
                   writers, readers, increments>>

\* roomba.ensure_sensor_stream() inside the try
PushWatchdog(outcome) ==
    /\ push.pc = "watchdog"
    /\ IF outcome = "raises"
       THEN ensure_sensor_stream_raises(MAX_STALE_SEC, RESTART_COOLDOWN_SEC)
       ELSE ensure_sensor_stream_call(MAX_STALE_SEC, RESTART_COOLDOWN_SEC)
    /\ push' = IF watchdog_error(outcome) = "continue"
               THEN [push EXCEPT !.pc = "snapshot", !.watched = push.iter,
                                 !.raised = IF outcome = "raises"
                                            THEN push.iter ELSE @]
               ELSE [push EXCEPT !.pc = "ended", !.watched = push.iter,
                                 !.raised = push.iter]
    /\ UNCHANGED <<callerVars, odoVars, threads, journal, detector, plans,
                   writers, readers, increments>>

\* payload = roomba.get_telemetry_snapshot()
PushSnapshot ==
    /\ push.pc = "snapshot"
    /\ snap' = TakeSnapshot
    /\ push' = [push EXCEPT !.pc = "send"]
    /\ wire' = <<>>
    /\ UNCHANGED <<serial_open, telemetry, stream_buffer, rx, rd, now,
                   last_stream_update, watchVars, req, drv, ack>>
    /\ UNCHANGED <<odoVars, threads, journal, detector, plans, writers,
                   readers, increments>>

\* await websocket.send_json(payload): sent, or WebSocketDisconnect
PushSend(disconnected) ==
    /\ push.pc = "send"
    /\ push' = IF disconnected
               THEN [push EXCEPT !.pc = "ended", !.disconnected = TRUE]
               ELSE [push EXCEPT !.pc = "sleep", !.sent = push.iter]
    /\ wire' = <<>>
    /\ UNCHANGED <<serial_open, telemetry, stream_buffer, rx, rd, now,
                   last_stream_update, watchVars>>
    /\ UNCHANGED <<callerVars, odoVars, threads, journal, detector, plans,
                   writers, readers, increments>>

\* await asyncio.sleep(...), then the next iteration
PushSleep ==
    /\ push.pc = "sleep"
    /\ push.iter < MaxPushIters
    /\ push' = [push EXCEPT !.pc = "watchdog", !.iter = @ + 1]
    /\ wire' = <<>>
    /\ UNCHANGED <<serial_open, telemetry, stream_buffer, rx, rd, now,
                   last_stream_update, watchVars>>
    /\ UNCHANGED <<callerVars, odoVars, threads, journal, detector, plans,
                   writers, readers, increments>>

NextPush ==
    \/ PushAccept
    \/ \E outcome \in {"returns", "raises"} : PushWatchdog(outcome)
    \/ PushSnapshot
    \/ \E disconnected \in BOOLEAN : PushSend(disconnected)
    \/ PushSleep
    \/ HandleControlMessage([action |-> "init"])
    \/ WatchdogFrame
    \/ ReaderDies
    \/ Close
    \/ ClockAdvance(MaxPushTime)

SpecPush == InitCtl /\ [][NextPush]_vars

----------------------------------------------------------------------------
(* SpecWrite: two threads call RoombaOI.write while the port may be       *)
(* closed by the shutdown handler.  The port takes the bytes of a payload *)
(* one after the other.                                                   *)

\* the most calls of write
MaxWrites == 3

\* a drive command of the control handler, the subscription of the
\* watchdog and the pause of stop_sensor_stream
WriterCommands == {<<137, 0, 100, 128, 0>>, <<148, 1, 7>>, <<150, 0>>}

\* a write that does not wait for the lock
lock_free_ignored(lock) == TRUE

\* `with self._lock:` can be entered
lock_free(lock) == lock = "free"

\* write(payload) up to self._serial.write: the lock is taken and the port
\* opened if it is not open
WriteEnter(t, payload) ==
    /\ writers.pc[t] = "idle"
    /\ writers.calls < MaxWrites
    /\ lock_free(writers.lock)
    /\ writers' = [writers EXCEPT !.lock = t, !.pc[t] = "writing",
                                  !.cmd[t] = payload, !.pos[t] = 0,
                                  !.id[t] = writers.calls + 1,
                                  !.result[t] = "none",
                                  !.calls = @ + 1]
    /\ serial_open' = TRUE
    /\ telemetry' = connect(Driver, now).telemetry
    /\ wire' = <<>>
    /\ UNCHANGED <<stream_buffer, rx, rd, now, last_stream_update, watchVars>>
    /\ UNCHANGED <<callerVars, odoVars, threads, journal, detector, plans,
                   push, readers, increments>>

\* self._serial.write(payload): the next byte goes out, or the port was
\* closed meanwhile and the write raises, which leaves the with block
WriteByte(t) ==
    /\ writers.pc[t] = "writing"
    /\ writers.pos[t] < Len(writers.cmd[t])
    /\ writers' =
           IF serial_open
           THEN [writers EXCEPT
                    !.pos[t] = @ + 1,
                    !.link = Append(@, [call |-> writers.id[t],
                                        byte |-> writers.cmd[t][writers.pos[t] + 1]])]
           ELSE [writers EXCEPT
                    !.pc[t] = "idle", !.result[t] = "raised",
                    !.lock = IF @ = t THEN "free" ELSE @]
    /\ wire' = <<>>
    /\ UNCHANGED <<serial_open, telemetry, stream_buffer, rx, rd, now,
                   last_stream_update, watchVars>>
    /\ UNCHANGED <<callerVars, odoVars, threads, journal, detector, plans,
                   push, readers, increments>>

\* self._serial.flush() and the end of the with block
WriteFlush(t) ==
    /\ writers.pc[t] = "writing"
    /\ writers.pos[t] = Len(writers.cmd[t])
    /\ writers' = [writers EXCEPT
                      !.pc[t] = "idle",
                      !.result[t] = IF serial_open THEN "returned" ELSE "raised",
                      !.lock = IF @ = t THEN "free" ELSE @]
    /\ wire' = <<>>
    /\ UNCHANGED <<serial_open, telemetry, stream_buffer, rx, rd, now,
                   last_stream_update, watchVars>>
    /\ UNCHANGED <<callerVars, odoVars, threads, journal, detector, plans,
                   push, readers, increments>>

\* close(), after its pause command: self._serial.close() without the lock
WriterPortClosed ==
    /\ serial_open
    /\ serial_open' = FALSE
    /\ telemetry' = [telemetry EXCEPT !.roomba_connected = FALSE,
                                      !.state = "disconnected",
                                      !.timestamp = now]
    /\ wire' = <<>>
    /\ UNCHANGED <<stream_buffer, rx, rd, now, last_stream_update, watchVars>>
    /\ UNCHANGED <<callerVars, odoVars, sideVars>>

NextWrite ==
    \/ \E t \in Threads, payload \in WriterCommands : WriteEnter(t, payload)
    \/ \E t \in Threads : WriteByte(t)
    \/ \E t \in Threads : WriteFlush(t)
    \/ WriterPortClosed

SpecWrite == InitCtl /\ [][NextWrite]_vars

----------------------------------------------------------------------------
(* SpecTotals: frames with the increments of distance (packet 19) and     *)
(* angle (packet 20) are decoded while the link is closed, opened again   *)
(* and the stream restarted.                                              *)

\* the most increments decoded
MaxIncrements == 4

\* increments at both ends of the signed 16-bit range, two packets 19 in
\* one frame, and a frame cut short behind its packet 19
TotalsPayloads ==
    {<<19, 127, 255>>, <<19, 128, 0>>, <<20, 127, 255>>, <<20, 255, 166>>,
     <<19, 0, 5, 19, 255, 253>>, <<19, 0, 100, 20, 0, 90>>, <<19, 0, 7, 99>>}

\* the increments of packet packet_id that _apply_stream_payload applies
\* from index i on
RECURSIVE payload_increments(_, _, _)
payload_increments(payload, i, packet_id) ==
    IF ~packet_at(payload, i) THEN <<>>
    ELSE (IF payload[i + 1] = packet_id
          THEN <<FromBytesSigned(packet_data(payload, i))>> ELSE <<>>)
         \o payload_increments(payload, i + 1 + PACKET_SIZE(payload[i + 1]),
                               packet_id)

\* the reader thread decodes one frame
TotalsFrame(payload) ==
    /\ rd.pc = "read"
    /\ serial_open
    /\ Len(increments.distance) + Len(increments.angle) < MaxIncrements
    /\ increments' =
           [distance |-> increments.distance \o payload_increments(payload, 0, 19),
            angle |-> increments.angle \o payload_increments(payload, 0, 20)]
    /\ rd' = [rd EXCEPT !.payload = payload]
    /\ telemetry' = apply_stream_payload(telemetry, payload, 0, now)
    /\ last_stream_update' =
               IF payload_complete(payload, 0) THEN now ELSE last_stream_update
    /\ wire' = <<>>
    /\ UNCHANGED <<serial_open, stream_buffer, rx, now, watchVars>>
    /\ UNCHANGED <<callerVars, odoVars, threads, journal, detector, plans,
                   push, writers, readers>>

NextTotals ==
    \/ \E payload \in TotalsPayloads : TotalsFrame(payload)
    \/ HandleControlMessage([action |-> "init"])
    \/ EnsureSensorStream(MAX_STALE_SEC, RESTART_COOLDOWN_SEC)
    \/ StartSensorStream(WatchdogPacketIds)
    \/ ReaderDies
    \/ Close
    \/ Tick

SpecTotals == InitCtl /\ [][NextTotals]_vars

----------------------------------------------------------------------------
(* SpecReaders: the life of the reader threads.  readers.stop is the       *)
(* event _stream_stop, readers.thread the thread _stream_thread refers to  *)
(* (0 for None), readers.pc[k] the position of the k-th thread created,    *)
(* readers.open the value of connected.  The callers run on the event      *)
(* loop, one call at a time; the reader threads run beside them.           *)

\* the most threads created and the most calls made
MaxReaderThreads == 3
MaxReaderOps == 5

\* Thread.is_alive() of _stream_thread
thread_alive(r) == r.thread # 0 /\ r.pc[r.thread] # "done"

\* RoombaOI._start_stream_reader
start_stream_reader(r) ==
    IF thread_alive(r) THEN r
    ELSE [r EXCEPT !.stop = FALSE, !.pc = Append(@, "test"),
                   !.thread = Len(r.pc) + 1]

\* RoombaOI.stop_sensor_stream; joined tells whether the thread ended within
\* the second join waits for it
stop_sensor_stream(r, joined) ==
    [r EXCEPT !.stop = TRUE,
              !.pc = IF thread_alive(r) /\ joined
                     THEN [@ EXCEPT ![r.thread] = "done"] ELSE @,
              !.thread = 0]

\* Thread.join(timeout=1.0) returns without the thread having ended only
\* while the thread is inside serial.read, which blocks for up to the
\* serial timeout
JoinOutcomes(r) ==
    IF thread_alive(r) /\ r.pc[r.thread] = "reading" THEN BOOLEAN ELSE {TRUE}

ReadersCall(r) ==
    /\ readers.calls < MaxReaderOps
    /\ Len(r.pc) <= MaxReaderThreads
    /\ readers' = [r EXCEPT !.calls = readers.calls + 1]
    /\ UNCHANGED <<driverVars, callerVars, odoVars, threads, journal, detector,
                   plans, push, writers, increments>>

\* RoombaOI.start_sensor_stream: the write opens the port if need be
ReadersStart == ReadersCall(start_stream_reader([readers EXCEPT !.open = TRUE]))

\* RoombaOI.ensure_sensor_stream; stale stands for the two time tests and
\* the cooldown having passed
ReadersEnsure(stale) ==
    /\ readers.open
    /\ ~thread_alive(readers) \/ stale
    /\ ReadersCall(start_stream_reader(readers))

\* RoombaOI.stop_sensor_stream
ReadersStop(joined) ==
    /\ joined \in JoinOutcomes(readers)
    /\ ReadersCall(stop_sensor_stream(readers, joined))

\* RoombaOI.close
ReadersClose(joined) ==
    /\ joined \in JoinOutcomes(readers)
    /\ ReadersCall([stop_sensor_stream(readers, joined) EXCEPT !.open = FALSE])

\* RoombaOI._stream_reader_loop, thread k: the loop test
ReaderTest(k) ==
    /\ k \in 1..Len(readers.pc)
    /\ readers.pc[k] = "test"
    /\ readers' = [readers EXCEPT !.pc[k] =
                       IF ~readers.stop /\ readers.open THEN "reading" ELSE "done"]
    /\ UNCHANGED <<driverVars, callerVars, odoVars, threads, journal, detector,
                   plans, push, writers, increments>>

\* RoombaOI._stream_reader_loop, thread k: serial.read returns, or raises
\* and the loop breaks
ReaderRead(k, raised) ==
    /\ k \in 1..Len(readers.pc)
    /\ readers.pc[k] = "reading"
    /\ readers' = [readers EXCEPT !.pc[k] = IF raised THEN "done" ELSE "test"]
    /\ UNCHANGED <<driverVars, callerVars, odoVars, threads, journal, detector,
                   plans, push, writers, increments>>

NextReaders ==
    \/ ReadersStart
    \/ \E stale \in BOOLEAN : ReadersEnsure(stale)
    \/ \E joined \in BOOLEAN : ReadersStop(joined)
    \/ \E joined \in BOOLEAN : ReadersClose(joined)
    \/ \E k \in 1..MaxReaderThreads + 1 : ReaderTest(k)
    \/ \E k \in 1..MaxReaderThreads + 1, raised \in BOOLEAN : ReaderRead(k, raised)

SpecReaders == InitCtl /\ [][NextReaders]_vars

----------------------------------------------------------------------------
(* SpecEvents: the estimator with the journal as its history sink: every   *)
(* event of an operation becomes a line of the journal.  The operations    *)
(* run on both update paths, with and without a plan, and the estimator    *)
(* is restored from the journal as the application does at start-up.       *)

MaxEventOps == 4

\* start poses <<x, y, theta>>: inside the room, outside it, and with a
\* heading of 270 degrees
EventStarts ==
    {<<40 * PosScale, 20 * PosScale, 0>>,
     <<-30 * PosScale, 20 * PosScale, 0>>,
     <<20 * PosScale, 11 * PosScale, 270 * AngScale>>}

EventBaselines ==
    {NoBaselines,
     [distance |-> Some(0), angle |-> Some(0), left |-> Some(0), right |-> Some(0)]}

\* encoder counts (the encoder path) and totals alone (the scalar path,
\* which a snapshot without encoder counts takes whatever the source)
EventTelemetry ==
    {[left_encoder_counts |-> l, right_encoder_counts |-> r,
      bump_left |-> FALSE, bump_right |-> FALSE, timestamp |-> 1] :
        l \in {0, 40}, r \in {0, 40}}
    \cup {[total_distance_mm |-> d, total_angle_deg |-> a, timestamp |-> 1] :
             d \in {0, 20}, a \in {0, 90}}

\* an operation of the estimator whose events the sink appends
EventsStep(name, o1) ==
    /\ odo.ops < MaxEventOps
    /\ odo' = o1
    /\ journal' = [journal EXCEPT !.lines = append_all(@, o1.history, now),
                                  !.op = name, !.ops = @ + 1]
    /\ pose' = snapshot(o1)
    /\ UNCHANGED <<call, driverVars, callerVars, threads, detector, plans,
                   linkVars>>

EventsSetPlan ==
    \E plan \in {Some(PlanRoom)}, r \in {10 * PosScale} :
        EventsStep("set_collision_plan", set_collision_plan(odo, plan, r))

EventsReset ==
    \E s \in EventStarts, b \in EventBaselines :
        EventsStep("reset", reset(odo, s[1], s[2], s[3], b.distance, b.angle,
                                  b.left, b.right))

EventsUpdate ==
    \E tel \in EventTelemetry :
        EventsStep("update", update_from_telemetry(odo, tel))

EventsExternalPose ==
    \E p \in {<<20 * PosScale, 20 * PosScale>>, <<20 * PosScale, 5 * PosScale>>},
       theta \in {180 * AngScale}, blend \in ClampBlends :
        EventsStep("external_pose",
                   apply_external_pose(odo, p[1], p[2], theta, blend[1],
                                       blend[2], "external"))

\* app.py, start-up of a new process: an estimator is constructed and,
\* before any plan is loaded, reset to the journal's last pose
EventsRestore ==
    LET restored_pose == last_pose(journal.lines)
        created == [InitEstimator(odo.source, odo.linear_scale, odo.angular_scale)
                       EXCEPT !.ops = odo.ops]
    IN  /\ restored_pose # None
        /\ EventsStep("restore",
                      reset(created, restored_pose[1].x_mm, restored_pose[1].y_mm,
                            restored_pose[1].theta_deg, None, None, None, None))

NextEvents ==
    \/ EventsSetPlan
    \/ EventsReset
    \/ EventsUpdate
    \/ EventsExternalPose
    \/ EventsRestore

InitEvents ==
    InitDriver /\ InitCallers /\ InitOdometry({"encoders"}, {PctScale})

SpecEvents == InitEvents /\ [][NextEvents]_vars

----------------------------------------------------------------------------
(* SpecCut: a robot whose frames pass the checksum but are cut short by an *)
(* unknown packet id or a truncated packet, under the watchdog.  rx.at is  *)
(* the time of the last frame decoded.                                     *)

MaxCutTime == 7

\* packet 7 then an unknown id; packet 7 then packet 19 with one byte of
\* its two
CutShortPayloads == {<<7, 1, 99>>, <<7, 2, 19, 0>>}

CutPayloads == CutShortPayloads \cup {<<7, 0>>}

\* the reader thread decodes one frame
CutFrame(payload) ==
    /\ rd.pc = "read"
    /\ serial_open
    /\ rd' = [rd EXCEPT !.payload = payload]
    /\ rx' = [rx EXCEPT !.at = now]
    /\ telemetry' = apply_stream_payload(telemetry, payload, 0, now)
    /\ last_stream_update' =
               IF payload_complete(payload, 0) THEN now ELSE last_stream_update
    /\ wire' = <<>>
    /\ UNCHANGED <<serial_open, stream_buffer, now, watchVars,
                   req, drv, ack, snap>>
    /\ UNCHANGED <<odoVars, sideVars>>

NextCut ==
    \/ HandleControlMessage([action |-> "init"])
    \/ EnsureSensorStream(MAX_STALE_SEC, RESTART_COOLDOWN_SEC)
    \/ \E payload \in CutPayloads : CutFrame(payload)
    \/ ClockAdvance(MaxCutTime)

SpecCut == InitCtl /\ [][NextCut]_vars

----------------------------------------------------------------------------
(* SpecRevive: the reader threads of SpecReaders under the clock and the   *)
(* watchdog of the push loop.  A read may raise and end its thread; the    *)
(* subscriber's loop calls ensure_sensor_stream in every iteration; the    *)
(* link is opened by the control handler's init and closed by close.       *)
(* SpecReviveFair adds what the scheduling gives: the clock advances, the  *)
(* push loop comes back to the watchdog every telemetry_interval_sec and   *)
(* its call does not raise for ever, every reader thread is scheduled and  *)
(* a serial read returns when the serial timeout has passed.               *)

MaxReviveTime == 6
MaxReviveThreads == 3

\* a link on which the write of the subscription never returns
revive_write_never_lands(outcome) == FALSE

\* RoombaOI.start_sensor_stream, line 184: TRUE when the write returns
revive_write(outcome) == outcome = "returns"

\* ws.py init: connect, start, safe, start_sensor_stream on a closed link
ReviveInit ==
    /\ ~readers.open
    /\ Len(readers.pc) < MaxReviveThreads
    /\ readers' = start_stream_reader([readers EXCEPT !.open = TRUE])
    /\ last_stream_start' = now
    /\ UNCHANGED <<serial_open, wire, telemetry, stream_buffer, rx, rd, now,
                   last_stream_update, stream_packet_ids, watchdog>>
    /\ UNCHANGED <<callerVars, odoVars, threads, journal, detector, plans,
                   push, writers, increments>>

\* one iteration of telemetry_stream: ensure_sensor_stream, whose
\* start_sensor_stream writes the subscription (the write returns or
\* raises), stamps the start and starts a reader if none is alive
RevivePush(outcome) ==
    /\ IF /\ ensure_restarts(readers.open, thread_alive(readers),
                             last_stream_update, last_stream_start, now,
                             MAX_STALE_SEC, RESTART_COOLDOWN_SEC)
          /\ revive_write(outcome)
       THEN /\ readers' = start_stream_reader(readers)
            /\ last_stream_start' = now
       ELSE UNCHANGED <<readers, last_stream_start>>
    /\ UNCHANGED <<serial_open, wire, telemetry, stream_buffer, rx, rd, now,
                   last_stream_update, stream_packet_ids, watchdog>>
    /\ UNCHANGED <<callerVars, odoVars, threads, journal, detector, plans,
                   push, writers, increments>>

\* RoombaOI.close
ReviveClose(joined) ==
    /\ readers.open
    /\ joined \in JoinOutcomes(readers)
    /\ readers' = [stop_sensor_stream(readers, joined) EXCEPT !.open = FALSE]
    /\ UNCHANGED <<driverVars, callerVars, odoVars, threads, journal, detector,
                   plans, push, writers, increments>>

\* a read of thread k raises; it is modelled while a later thread can
\* still be created and the cooldown can still pass on the clock
ReviveReadRaises(k) ==
    /\ Len(readers.pc) < MaxReviveThreads
    /\ last_stream_start + RESTART_COOLDOWN_SEC <= MaxReviveTime
    /\ ReaderRead(k, TRUE)

NextRevive ==
    \/ ReviveInit
    \/ \E outcome \in {"returns", "raises"} : RevivePush(outcome)
    \/ \E joined \in BOOLEAN : ReviveClose(joined)
    \/ \E k \in 1..MaxReviveThreads : ReaderTest(k)
    \/ \E k \in 1..MaxReviveThreads : ReaderRead(k, FALSE)
    \/ \E k \in 1..MaxReviveThreads : ReviveReadRaises(k)
    \/ ClockAdvance(MaxReviveTime)

SpecRevive == InitCtl /\ [][NextRevive]_vars

SpecReviveFair ==
    /\ SpecRevive
    /\ WF_vars(ClockAdvance(MaxReviveTime))
    /\ WF_vars(RevivePush("returns"))
    /\ \A k \in 1..MaxReviveThreads :
           WF_vars(ReaderTest(k)) /\ WF_vars(ReaderRead(k, FALSE))

----------------------------------------------------------------------------
(* Claims about the command path *)

\* C1's table: what the dispatcher may forward for a request under the
\* bumper bits it read
C1_Forwarded(bump_left, bump_right, velocity, radius) ==
    IF bump_left /\ bump_right THEN
        IF velocity < 0 THEN <<velocity, radius>> ELSE <<0, 32768>>
    ELSE IF bump_left THEN
        IF velocity < 0 \/ radius = -1 THEN <<velocity, radius>>
        ELSE <<0, 32768>>
    ELSE IF bump_right THEN
        IF velocity < 0 \/ radius = 1 THEN <<velocity, radius>>
        ELSE <<0, 32768>>
    ELSE <<velocity, radius>>

\* C1: after a drive message, the command given to RoombaOI.drive is the one
\* the bumper table allows for the request and the bumper bits of the
\* snapshot the guard read; so a forwarded velocity > 0 under an active
\* bumper is only the in-place rotation away from the single active bumper.
C1_BumperGuard ==
    Get(req, "action", "") = "drive" =>
        /\ drv = C1_Forwarded(snap.tel.bump_left, snap.tel.bump_right,
                              req.velocity, req.radius)
        /\ (drv[1] > 0 /\ (snap.tel.bump_left \/ snap.tel.bump_right)) =>
               \/ snap.tel.bump_left /\ ~snap.tel.bump_right /\ drv[2] = -1
               \/ snap.tel.bump_right /\ ~snap.tel.bump_left /\ drv[2] = 1

\* C1 witness: a forward arc requested with only the left bumper active was
\* replaced by (0, straight)
C1_Witness ==
    /\ Get(req, "action", "") = "drive"
    /\ req.velocity = 200 /\ req.radius = 220
    /\ snap.tel.bump_left /\ ~snap.tel.bump_right
    /\ drv = <<0, 32768>>
    /\ Get(ack, "guard_reason", "") = "left_bumper_block_forward"

\* C2: a packet-7 bump rising edge while the last issued drive velocity is
\* positive makes the driver issue a stop (a drive with velocity 0) in the
\* same step.
C2_BumpEdgeStops ==
    [][(~telemetry.bumper /\ telemetry'.bumper /\ drv[1] > 0) =>
           /\ drv'[1] = 0
           /\ wire' # <<>>
           /\ wire'[Len(wire')][1] = CMD_DRIVE
           /\ SubSeq(wire'[Len(wire')], 2, 3) = <<0, 0>>]_vars

\* the 16-bit big-endian two's-complement operand of C6
C6_Operand(value) ==
    LET w == (value + 65536) % 65536 IN <<w \div 256, w % 256>>

C6_Saturate(value, lo, hi) ==
    IF value < lo THEN lo ELSE IF value > hi THEN hi ELSE value

\* C3: a snapshot taken while the reader thread is applying a frame is
\* either the telemetry as it was before the frame or the telemetry with all
\* of the frame's packets applied (whatever the refreshed timestamp); it
\* never shows some of the frame's packets applied and others not.
C3_SameButTimestamp(a, b) ==
    [a EXCEPT !.timestamp = 0, !.roomba_connected = TRUE]
        = [b EXCEPT !.timestamp = 0, !.roomba_connected = TRUE]

C3_SnapshotAtomic ==
    snap.mid =>
        \/ C3_SameButTimestamp(snap.tel, snap.pre) /\ snap.tel.timestamp = snap.pre.timestamp
        \/ C3_SameButTimestamp(snap.tel,
                               apply_stream_payload(snap.pre, snap.payload, 0, 0))

\* C4: when the reader consumes a whole candidate frame whose bytes do not sum
\* to 0 mod 256, no telemetry field changes (timestamp, totals and battery
\* percentage included), the time of the last stream update does not change,
\* and the frame is not handed to the payload decoder.
C4_BadCandidate(buffer) ==
    /\ Len(buffer) >= 3
    /\ buffer[1] = STREAM_HEADER
    /\ Len(buffer) >= buffer[2] + 3
    /\ (SumSeq(SubSeq(buffer, 1, buffer[2] + 3)) % 256) # 0

C4_BadFrameNoChange ==
    [][(rd.pc = "consume" /\ C4_BadCandidate(stream_buffer) /\ rd' # rd) =>
           /\ telemetry' = telemetry
           /\ last_stream_update' = last_stream_update
           /\ rd'.pc = "consume"
           /\ rd'.payload = rd.payload]_vars

\* the reader has just discarded a frame with a bad checksum, after an
\* earlier frame had been decoded
C4_Witness ==
    /\ rd.pc = "consume"
    /\ rd.frame = BadFrame
    /\ rd.payload # <<>>
    /\ telemetry.bump_right /\ ~telemetry.bump_left

\* C5: after a checksum failure the reader resumes at the byte after the
\* failed header, so a well-formed frame that starts inside the failed
\* candidate is decoded: once the reader has consumed the whole input
\* <<19, 5>> \o FrameCliff \o ..., the cliff packet of FrameCliff has been
\* applied.
C5_ResyncDecodesEmbedded ==
    (/\ Len(rx.bytes) >= Len(StrayThenCliff)
     /\ SubSeq(rx.bytes, 1, Len(StrayThenCliff)) = StrayThenCliff
     /\ rx.pos = Len(rx.bytes)
     /\ rd.pc = "read"
     /\ Len(stream_buffer) < 3)
        => telemetry.cliff_left

\* C7: with a plan installed and a pose of clearance >= 0, an update leaves
\* the pose with clearance >= 0, and no leg of the path the clamp loop
\* accepted crosses an edge of the room or of an obstacle.
C7_Orient(a, b, p) ==
    Sign(((b[1] - a[1]) * (p[2] - a[2])) - ((b[2] - a[2]) * (p[1] - a[1])))

C7_Crosses(p, q, a, b) ==
    /\ C7_Orient(a, b, p) * C7_Orient(a, b, q) < 0
    /\ C7_Orient(p, q, a) * C7_Orient(p, q, b) < 0

C7_Polygons(o) == <<o.room_contour>> \o o.obstacle_polygons

C7_PathCrossesEdge(o) ==
    \E i \in 1..(Len(o.run.path) - 1) :
        \E k \in 1..Len(C7_Polygons(o)) :
            \E e \in 1..Len(C7_Polygons(o)[k]) :
                C7_Crosses(o.run.path[i], o.run.path[i + 1],
                           C7_Polygons(o)[k][e],
                           NextVertex(C7_Polygons(o)[k], e))

C7_NoCrossing ==
    (odo.run.planned /\ odo.run.first_clearance >= 0) =>
        /\ pose_clearance_mm(odo, odo.x_mm, odo.y_mm) >= 0
        /\ ~C7_PathCrossesEdge(odo)

C9_ThetaInRange ==
    /\ odo.theta > -180 * AngScale
    /\ odo.theta <= 180 * AngScale

\* C10: the count delta an update takes for a wheel, from the previous and
\* the current reading reduced modulo 65536, is
\* ((current - previous + 32768) mod 65536) - 32768: it lies in
\* -32768..32767, it differs from current - previous by a multiple of 65536,
\* and a counter that wraps from 65535 to 0 gives +1.
C10_Delta(previous, current, delta) ==
    /\ previous \in 0..65535 /\ current \in 0..65535
    /\ delta = ((current - previous + 32768) % 65536) - 32768
    /\ delta \in -32768..32767
    /\ (delta - (current - previous)) % 65536 = 0
    /\ (previous = 65535 /\ current = 0) => delta = 1

C10_EncoderDelta ==
    odo.enc.used =>
        /\ C10_Delta(odo.enc.previous_left, odo.enc.left_counts,
                     odo.enc.delta_left_counts)
        /\ C10_Delta(odo.enc.previous_right, odo.enc.right_counts,
                     odo.enc.delta_right_counts)

\* the left counter wrapped from 65535 (the baseline -1 reduced) to 0
C10_Witness ==
    /\ odo.enc.used
    /\ odo.enc.previous_left = 65535 /\ odo.enc.left_counts = 0
    /\ odo.enc.delta_left_counts = 1
    /\ odo.enc.previous_right = 0 /\ odo.enc.right_counts = 32768
    /\ odo.enc.delta_right_counts = -32768

\* C6: every drive(velocity, radius) writes the 5 bytes 137, v, r with v
\* saturated to [-500, 500] and r saturated to [-2000, 2000] unless it is
\* 32768, -1 or 1, each as a 16-bit big-endian two's-complement operand.
C6_DriveEncoding ==
    wire # <<>> =>
        LET v == C6_Saturate(drv[1], -500, 500)
            r == IF drv[2] \in {32768, -1, 1} THEN drv[2]
                 ELSE C6_Saturate(drv[2], -2000, 2000)
        IN  /\ Len(wire[Len(wire)]) = 5
            /\ wire[Len(wire)] = <<137>> \o C6_Operand(v) \o C6_Operand(r)

\* C6 witness: a reverse drive beyond the velocity limit, straight:
\* -500 is FE 0C, 32768 is 80 00
C6_Witness ==
    /\ drv = <<-501, 32768>>
    /\ wire # <<>>
    /\ wire[Len(wire)] = <<137, 254, 12, 128, 0>>

----------------------------------------------------------------------------------------------------------------------------------------------
(* Claims about the estimator's updates *)

\* the telemetry record with both bump bits cleared
C11_Unbumped(tel) == [tel EXCEPT !.bump_left = FALSE, !.bump_right = FALSE]

C12_SamePose(a, b) ==
    /\ a.x_mm = b.x_mm /\ a.y_mm = b.y_mm /\ a.theta = b.theta

\* after update_from_telemetry(t), a second update_from_telemetry(t) leaves
\* x, y and theta as they are
C12_SecondUpdateIdle ==
    (odo'.ops = odo.ops + 1 /\ call'.op = "update_from_telemetry")
        => C12_SamePose(update_from_telemetry(odo', call'.tel), odo')

\* after a reset whose baselines are the accumulators of t,
\* update_from_telemetry(t) leaves x, y and theta as the reset set them
C12_UpdateAfterResetIdle ==
    \A tel \in OdoTelemetry :
        (/\ odo'.ops = odo.ops + 1
         /\ call'.op = "reset"
         /\ call'.b = telemetry_baselines(tel))
            => C12_SamePose(update_from_telemetry(odo', tel), odo')

\* C12: for any estimator state, source and telemetry record t, a second
\* update_from_telemetry(t) in a row leaves x, y and theta unchanged, and the
\* first update_from_telemetry(t) after a reset with the accumulators of t as
\* baselines leaves the pose equal to the reset pose.
C12_SameReadingNoChange ==
    [][C12_SecondUpdateIdle /\ C12_UpdateAfterResetIdle]_vars

\* the first half of C12 alone
C12_RepeatedUpdateNoChange == [][C12_SecondUpdateIdle]_vars

----------------------------------------------------------------------------
(* Claims about external poses and resets *)

C14_SameBaselines(a, b) ==
    /\ a.last_total_distance_mm = b.last_total_distance_mm
    /\ a.last_total_angle_deg = b.last_total_angle_deg
    /\ a.last_left_encoder_counts = b.last_left_encoder_counts
    /\ a.last_right_encoder_counts = b.last_right_encoder_counts

\* the distance and angle steps an update integrated, from the events it
\* wrote (none for a zero step)
C14_Steps(o) ==
    [k \in 1..Len(o.history) |->
        <<o.history[k].distance_mm, o.history[k].angle_deg>>]

\* two updates took the same sensor deltas: the same count deltas, the same
\* integrated distance and angle steps, and they leave the same baselines
C14_SameDeltas(a, b) ==
    /\ a.enc = b.enc
    /\ C14_Steps(a) = C14_Steps(b)
    /\ C14_SameBaselines(a, b)

\* the telemetry records tried for the update that follows
C14_NextReadings ==
    {tel \in OdoTelemetry :
        IF "left_encoder_counts" \in DOMAIN tel
        THEN tel.left_encoder_counts = 1 /\ ~tel.bump_left
        ELSE tel.total_distance_mm = 100}

\* C14: apply_external_pose leaves last_total_distance_mm,
\* last_total_angle_deg and the last left and right encoder counts as they
\* were, so for every telemetry record tried the update_from_telemetry that
\* follows takes the sensor deltas it would have taken without the external pose.
\* (No plan is installed, so the integrated distance is the sensor step.)
C14_ExternalPoseKeepsBaselines ==
    [][(odo'.ops = odo.ops + 1 /\ call'.op = "apply_external_pose")
       => /\ C14_SameBaselines(odo', odo)
          /\ \A tel \in C14_NextReadings :
                 C14_SameDeltas(update_from_telemetry(odo', tel),
                                update_from_telemetry(odo, tel))]_vars

\* an external pose moved the estimator 35 mm towards x = 100 mm while the
\* baselines a reset had installed are still in place
C14_Witness ==
    /\ call.op = "apply_external_pose"
    /\ odo.x_mm = 35 * PosScale
    /\ odo.last_left_encoder_counts = Some(65535)
    /\ odo.last_right_encoder_counts = Some(65535)
    /\ odo.last_total_distance_mm = Some(0)
    /\ odo.last_total_angle_deg = Some(0)

\* the heading congruent to theta modulo 360 degrees in (-180, 180]
C15_Normalized(theta) ==
    (180 * AngScale) - (((180 * AngScale) - theta) % (360 * AngScale))

\* C15: with no collision geometry installed, or with (x, y) valid under it,
\* reset(x, y, theta_deg) followed by get_pose returns x_mm = x, y_mm = y,
\* theta_deg normalised into (-180, 180], and last_delta_distance_mm =
\* last_delta_angle_deg = 0.
C15_ResetThenGetPose ==
    (/\ call.op = "reset" /\ call.got
     /\ \/ Len(odo.room_contour) < 3
        \/ pose_clearance_mm(odo, call.x_mm, call.y_mm) >= 0)
    => /\ pose.x_mm = call.x_mm
       /\ pose.y_mm = call.y_mm
       /\ pose.theta_deg = C15_Normalized(call.theta_deg)
       /\ pose.last_delta_distance_mm = 0
       /\ pose.last_delta_angle_deg = 0

\* what holds of reset followed by get_pose: everything C15 says but the
\* normalisation of the heading, which is returned as given
C15_ResetReturnsHeadingAsGiven ==
    (/\ call.op = "reset" /\ call.got
     /\ \/ Len(odo.room_contour) < 3
        \/ pose_clearance_mm(odo, call.x_mm, call.y_mm) >= 0)
    => /\ pose.x_mm = call.x_mm
       /\ pose.y_mm = call.y_mm
       /\ pose.theta_deg = call.theta_deg
       /\ pose.last_delta_distance_mm = 0
       /\ pose.last_delta_angle_deg = 0

----------------------------------------------------------------------------
(* Claims about the calibration scales *)

\* the update in progress differentiates the scalar accumulators against a
\* baseline
C16_ScalarStep ==
    /\ odo'.ops = odo.ops + 1
    /\ call'.op = "update_from_telemetry"
    /\ "left_encoder_counts" \notin DOMAIN call'.tel
    /\ odo.last_total_distance_mm # None
    /\ odo.last_total_angle_deg # None

\* the heading moved by angle_deg (in 1/AngScale degree) and the position by
\* distance_mm (in 1/PosScale mm) along the new heading
C16_Moved(distance_mm, angle_deg) ==
    /\ (odo'.theta - odo.theta - angle_deg) % (360 * AngScale) = 0
    /\ odo'.x_mm = odo.x_mm + RoundDiv(distance_mm * Cos(odo'.theta), TrigScale)
    /\ odo'.y_mm = odo.y_mm + RoundDiv(distance_mm * Sin(odo'.theta), TrigScale)

\* C16: with no geometry installed, a scalar update whose total_distance_mm
\* grew by D and whose total_angle_deg grew by A since the last reading
\* changes the heading by A * angular_scale and moves the pose by
\* D * linear_scale along the new heading: each scale applied once.
C16_ScalesAppliedOnce ==
    [][C16_ScalarStep =>
          C16_Moved(
              MulDiv((call'.tel.total_distance_mm * PosScale)
                         - odo.last_total_distance_mm[1],
                     odo.linear_scale, PctScale),
              MulDiv((call'.tel.total_angle_deg * AngScale)
                         - odo.last_total_angle_deg[1],
                     odo.angular_scale, PctScale))]_vars

\* what the code does: each scale is applied twice, so the heading changes
\* by A * angular_scale^2 and the pose moves by D * linear_scale^2
C16_ScalesAppliedTwice ==
    [][C16_ScalarStep =>
          C16_Moved(
              MulDiv(MulDiv((call'.tel.total_distance_mm * PosScale)
                                - odo.last_total_distance_mm[1],
                            odo.linear_scale, PctScale),
                     odo.linear_scale, PctScale),
              MulDiv(MulDiv((call'.tel.total_angle_deg * AngScale)
                                - odo.last_total_angle_deg[1],
                            odo.angular_scale, PctScale),
                     odo.angular_scale, PctScale))]_vars

----------------------------------------------------------------------------
(* Claims about the battery percentage *)

\* Python's round() of the quotient a / b of two non-negative integers:
\* to the nearest integer, a half to the even neighbour
C17_Round(a, b) ==
    LET q == a \div b
        r == a % b
    IN  IF 2 * r < b THEN q
        ELSE IF 2 * r > b THEN q + 1
        ELSE IF q % 2 = 0 THEN q ELSE q + 1

\* C17: after every applied sensor packet battery_pct is within [0, 100],
\* and whenever battery_capacity_mah > 0 it equals
\* round(battery_charge_mah * 100 / battery_capacity_mah) (capped at 100),
\* for 16-bit unsigned charge and capacity; with capacity 0 it keeps its
\* previous value.
C17_BatteryPctRounded ==
    /\ telemetry.battery_pct \in 0..100
    /\ telemetry.battery_capacity_mah > 0 =>
           telemetry.battery_pct =
               Min(100, C17_Round(telemetry.battery_charge_mah * 100,
                                      telemetry.battery_capacity_mah))

\* what the code computes instead: the quotient truncated, then kept
\* within [0, 100]; a packet that finds the capacity at 0 and leaves it
\* there, or one that sets the capacity to 0, leaves battery_pct as it was
C17_BatteryPctTruncated ==
    [][/\ telemetry'.battery_pct \in 0..100
       /\ telemetry'.battery_capacity_mah > 0 =>
              telemetry'.battery_pct =
                  Min(100, (telemetry'.battery_charge_mah * 100)
                               \div telemetry'.battery_capacity_mah)
       /\ ( /\ telemetry'.battery_capacity_mah = 0
            /\ \/ telemetry.battery_capacity_mah = 0
               \/ telemetry'.battery_charge_mah = telemetry.battery_charge_mah )
          => telemetry'.battery_pct = telemetry.battery_pct]_vars

----------------------------------------------------------------------------
(* Claims about the stream watchdog *)

\* the seconds without a valid frame: since the last one or, before any
\* frame, since the last subscription
C18_Quiet == IF last_stream_update > 0 THEN now - last_stream_update ELSE now - last_stream_start

\* what an ensure_sensor_stream call does when it decides to issue (or not)
C18_Step(issue) ==
    IF issue
    THEN /\ wire' = << <<CMD_STREAM, Len(stream_packet_ids)>> \o stream_packet_ids >>
         /\ watchdog'.issued # <<>> /\ watchdog'.issued[1] = now
         /\ last_stream_start' = now
         /\ rd'.pc # "none"
         /\ UNCHANGED <<serial_open, stream_packet_ids>>
    ELSE /\ wire' = <<>>
         /\ UNCHANGED <<serial_open, stream_packet_ids, last_stream_start, rd>>
         /\ watchdog'.issued = watchdog.issued

\* two subscriptions of the watchdog are restart_cooldown_sec apart or more
C18_Spaced(issued) ==
    Len(issued) = 2 => issued[1] - issued[2] >= RESTART_COOLDOWN_SEC

\* C18 as stated: ensure_sensor_stream re-issues the subscription (opcode
\* 148 with the packet ids of the most recent subscription) if and only if
\* the link is open, and the reader thread is not alive or no valid frame
\* has been received within max_stale_sec, and the last subscription was
\* issued more than restart_cooldown_sec ago; two subscriptions of the
\* watchdog are never less than restart_cooldown_sec apart and none is
\* issued while the link is closed.
C18_RestartsAfterCooldown ==
    [][watchdog'.turn # watchdog.turn =>
          /\ C18_Step(/\ serial_open
                      /\ rd.pc = "none" \/ C18_Quiet > MAX_STALE_SEC
                      /\ \/ last_stream_start = 0
                         \/ now - last_stream_start > RESTART_COOLDOWN_SEC)
          /\ C18_Spaced(watchdog'.issued)]_vars

\* C18, amended: the same with the last subscription issued
\* restart_cooldown_sec ago or more (or never), the time without a valid
\* frame being counted from the last valid frame or, before any frame, from
\* the last subscription.
C18_RestartsFromCooldown ==
    [][watchdog'.turn # watchdog.turn =>
          /\ C18_Step(/\ serial_open
                      /\ rd.pc = "none" \/ C18_Quiet > MAX_STALE_SEC
                      /\ \/ last_stream_start = 0
                         \/ now - last_stream_start >= RESTART_COOLDOWN_SEC)
          /\ C18_Spaced(watchdog'.issued)]_vars

\* the watchdog has re-issued a caller's subscription twice, the cooldown
\* apart, while the reader thread lives and the last frame is stale
C18_Witness ==
    /\ wire = << <<CMD_STREAM, 3>> \o WatchdogPacketIds >>
    /\ Len(watchdog.issued) = 2
    /\ watchdog.issued[1] = now
    /\ watchdog.issued[1] - watchdog.issued[2] = RESTART_COOLDOWN_SEC
    /\ last_stream_update > 0
    /\ rd.pc = "read"
    /\ serial_open

----------------------------------------------------------------------------
(* Claims about the link *)

\* the control messages that end in RoombaOI.write without connecting
\* first: drive, stop, clean, dock and mode with a valid value
C19_Commands ==
    {message \in CtlMessages :
        /\ Get(message, "action", "") \in {"drive", "stop", "clean", "dock", "mode"}
        /\ Get(message, "value", "safe") \in {"safe", "full"}}

\* C19: a write on a driver whose link is not open (never connected, or
\* closed by close()) fails with a link-closed error, sends no bytes and
\* leaves the link closed, so that no drive, stop, clean, dock or mode
\* command reopens the port or reaches the robot.
C19_ClosedLinkStaysClosed ==
    [][(/\ ~serial_open
        /\ \E message \in C19_Commands : HandleControlMessage(message))
       => (~serial_open' /\ wire' = <<>> /\ ~ack'.ok)]_vars

\* what the code does instead: the command opens the port again, is
\* written to it and is acknowledged
C19_WriteReconnects ==
    [][(/\ ~serial_open
        /\ \E message \in C19_Commands : HandleControlMessage(message))
       => (serial_open' /\ Len(wire') = 1 /\ ack'.ok /\ ack'.connected)]_vars

----------------------------------------------------------------------------
(* Claims about the dispatcher's errors *)

C20_Actions == {"ping", "init", "mode", "drive", "stop", "clean", "dock"}

\* the call raised with one of the three error texts and touched nothing
\* of the driver
C20_Rejected ==
    /\ ~ack'.ok
    /\ ack'.error = (IF "action" \notin DOMAIN req'
                     THEN "Missing action in message."
                     ELSE IF lower(req'.action) = "mode"
                     THEN "mode value must be safe or full."
                     ELSE "Unsupported action")
    /\ wire' = <<>>
    /\ UNCHANGED <<serial_open, telemetry, drv, rd, stream_buffer, watchVars>>

\* C20 as stated: handle_control_message with an action outside {ping,
\* init, mode, drive, stop, clean, dock} (or with no action, or mode with a
\* value other than safe/full) fails with an error naming the problem and
\* invokes no driver operation: no bytes are sent and the link state is
\* unchanged.
C20_UnknownActionRejected ==
    [][\A message \in CtlMessages :
          ( /\ \/ Get(message, "action", "") \notin C20_Actions
               \/ /\ Get(message, "action", "") = "mode"
                  /\ Get(message, "value", "safe") \notin {"safe", "full"}
            /\ HandleControlMessage(message) )
          => C20_Rejected]_vars

\* C20, amended: the same for an action that, put in lower case, is outside
\* the seven (or no action, or mode with a value that, put in lower case,
\* is neither safe nor full).
C20_UnknownLoweredActionRejected ==
    [][\A message \in CtlMessages :
          ( /\ \/ lower(Get(message, "action", "")) \notin C20_Actions
               \/ /\ lower(Get(message, "action", "")) = "mode"
                  /\ lower(Get(message, "value", "safe")) \notin {"safe", "full"}
            /\ HandleControlMessage(message) )
          => C20_Rejected]_vars

\* an unknown mode value has been refused on an open link
C20_Witness ==
    /\ req = [action |-> "mode", value |-> "turbo"]
    /\ ~ack.ok
    /\ ack.error = "mode value must be safe or full."
    /\ serial_open
    /\ wire = <<>>

----------------------------------------------------------------------------
(* Claims about init *)

\* what a whole init writes: start, safe, the subscription
C21_InitBytes ==
    << <<CMD_START>>, <<CMD_SAFE>>,
       <<CMD_STREAM, Len(STREAM_PACKETS_DEFAULT)>> \o STREAM_PACKETS_DEFAULT >>

\* the payloads written when the k-th step raises (k = 5: none does):
\* those of the steps before it
C21_Written(k) == SubSeq(C21_InitBytes, 1, Max(0, k - 2))

\* an init in which step k raises (k = 5: a whole init): the link is open
\* once connect has returned, the payloads of the steps before k are
\* written in order and nothing else, the reader thread is started and the
\* ack is ok only when all four steps have run
C21_InitStep(k) ==
    /\ serial_open' = (serial_open \/ k > 1)
    /\ wire' = C21_Written(k)
    /\ ack'.ok = (k = 5)
    /\ IF k = 5 THEN rd'.pc # "none" /\ last_stream_start' = now
       ELSE UNCHANGED <<rd, last_stream_start>>

\* C21: init performs, in this order, connect, start (128), safe (131),
\* the stream subscription (148, count, ids), and starts the reader thread
\* only after the subscription bytes were written; if a step raises, no
\* later step is executed and no ack with ok = true is returned.
C21_InitInOrder ==
    [][/\ HandleControlMessage([action |-> "init"]) => C21_InitStep(5)
       /\ \A k \in 1..Len(InitSteps) :
              HandleInitRaising(InitSteps[k]) => C21_InitStep(k)]_vars

\* an init has failed at the subscription: start and safe are written, the
\* link is open and there is no reader thread
C21_Witness ==
    /\ req = [action |-> "init"]
    /\ ~ack.ok
    /\ wire = << <<CMD_START>>, <<CMD_SAFE>> >>
    /\ serial_open
    /\ rd.pc = "none"

----------------------------------------------------------------------------
(* Claims about the ack of a drive *)

\* the bumper table: the request becomes (0, straight) when a bumper is
\* active, the velocity is not negative and the request is not the pivot
\* away from the single active bumper
C22_Blocked(bump_left, bump_right, velocity, radius) ==
    /\ bump_left \/ bump_right
    /\ velocity >= 0
    /\ ~(bump_left /\ ~bump_right /\ radius = -1)
    /\ ~(bump_right /\ ~bump_left /\ radius = 1)

C22_Reasons ==
    {"both_bumpers_block_forward", "left_bumper_block_forward",
     "right_bumper_block_forward"}

\* C22: the ack of a drive describes the command issued: its velocity and
\* radius are the operands the driver encoded on the wire for that call
\* (after the bumper guard and the saturation, special radii unclamped),
\* and it carries guarded = true with a guard_reason exactly when the
\* bumper guard replaced the request, and neither field otherwise.
C22_AckDescribesCommand ==
    (Get(req, "action", "") = "drive" /\ wire # <<>>) =>
        /\ ack.ok /\ ack.action = "drive"
        /\ wire = << <<CMD_DRIVE>> \o int16_bytes(ack.velocity)
                                  \o int16_bytes(ack.radius) >>
        /\ ack.velocity \in -500..500
        /\ ack.radius \in (-2000..2000) \cup {RADIUS_STRAIGHT}
        /\ IF C22_Blocked(snap.tel.bump_left, snap.tel.bump_right,
                          req.velocity, req.radius)
           THEN /\ "guarded" \in DOMAIN ack /\ ack.guarded
                /\ "guard_reason" \in DOMAIN ack
                /\ ack.guard_reason \in C22_Reasons
                /\ ack.velocity = 0 /\ ack.radius = RADIUS_STRAIGHT
           ELSE /\ "guarded" \notin DOMAIN ack
                /\ "guard_reason" \notin DOMAIN ack
                /\ ack.velocity = clamp_velocity(req.velocity)
                /\ ack.radius = clamp_radius(req.radius)

\* a saturated straight drive has been acknowledged unguarded while a
\* bumper was active (a reverse), with the special radius as sent
C22_Witness ==
    /\ Get(req, "action", "") = "drive"
    /\ req.velocity = -40000 /\ req.radius = 32768
    /\ snap.tel.bump_left
    /\ ack.velocity = -500 /\ ack.radius = 32768
    /\ wire = << <<CMD_DRIVE, 254, 12, 128, 0>> >>

----------------------------------------------------------------------------
(* Claims about the estimator's lock and its history sink *)

\* C23: the estimator never invokes the history sink while holding its
\* mutex: in reset, update_from_telemetry and apply_external_pose the lock
\* is released before the sink is called, so that a sink calling back into
\* the estimator (get_pose) cannot deadlock.
C23_SinkOutsideLock ==
    \A t \in Threads :
        /\ threads.pc[t] = "sink" => threads.lock # t
        /\ threads.pc[t] = "sink_get_pose" => threads.lock # t

\* what the code does instead: the sink always runs under the caller's
\* lock, and a sink that calls get_pose waits for a lock its own thread
\* holds
C23_SinkUnderLock ==
    \A t \in Threads :
        threads.pc[t] \in {"sink", "sink_get_pose"} => threads.lock = t

\* C24: if the history sink raises on an event, the operation that
\* emitted it still returns normally, its mutation of the pose and the
\* baselines is kept as it was when the sink was called, and the lock is
\* released so that later operations proceed.
C24_SinkErrorSwallowed ==
    [][\A t \in Threads :
          /\ (threads.pc[t] = "sink" /\ threads'.outcome[t] = "raises") =>
                 /\ odo' = odo
                 /\ journal' = journal
                 /\ threads'.pc[t] = "unlock"
                 /\ threads'.lock = t
          /\ (threads.pc[t] = "unlock" /\ threads.outcome[t] = "raises"
                  /\ threads'.pc[t] # "unlock") =>
                 /\ odo' = odo
                 /\ threads'.pc[t] = "idle"
                 /\ threads'.returned[t] = "normally"
                 /\ threads'.lock = "free"
                 /\ threads.op[t].name # "reset" => pose' = snapshot(odo)
          /\ threads'.returned[t] # "raised"]_vars

\* an operation whose sink raised has returned normally and the other
\* thread has taken the lock after it
C24_Witness ==
    \E t, u \in Threads :
        /\ t # u
        /\ threads.outcome[t] = "raises"
        /\ threads.returned[t] = "normally"
        /\ threads.pc[t] = "idle"
        /\ threads.lock = u
        /\ odo.ops = 2

\* C25: telemetry is integrated in the order the driver produced it: a
\* thread never applies a snapshot older than one already applied, and
\* apply_external_pose runs entirely before or after each update.
C25_SnapshotsAppliedInOrder ==
    [][\A t \in Threads :
          (/\ threads.pc[t] = "call"
           /\ threads'.pc[t] # "call"
           /\ threads.op[t].name = "update") =>
              produced(threads.op[t].tel) >= threads.applied]_vars

\* what the lock does give: the body of an operation runs in one piece,
\* no other thread changes the estimator while a thread holds the lock
C25_OperationsAtomic ==
    [][\A t \in Threads :
          threads.lock = t =>
              /\ odo' = odo
              /\ \A u \in Threads \ {t} :
                     threads.pc[u] = "call" => threads'.pc[u] = "call"]_vars

\* C26: the detector's input queue never holds more than 2 frames;
\* enqueueing onto a full queue drops the oldest queued frame and appends
\* the new one, so the worker receives frames in arrival order and the
\* frame enqueued last is never dropped; a frame is ignored when the
\* service is disabled or the frame is empty.  The frame enqueued last is
\* the one given to the latest call of enqueue_jpeg_frame: a frame is only
\* dropped by the call that enqueues a newer one.
C26_Seen ==
    detector.received \o [i \in 1..Len(detector.queue) |-> detector.queue[i].n]

C26_QueueKeepsNewest ==
    /\ Len(detector.queue) <= 2
    /\ \A i, j \in 1..Len(C26_Seen) : i < j => C26_Seen[i] < C26_Seen[j]
    /\ \A n \in detector.dropped : n < detector.frame.n
    /\ detector.pc = "idle" /\ detector.last # 0 =>
           /\ detector.last \notin detector.dropped
           /\ \E i \in 1..Len(C26_Seen) : C26_Seen[i] = detector.last
           /\ detector.frame.size > 0 => detector.last = detector.frame.n
    /\ \A i \in 1..Len(detector.queue) : detector.queue[i].size > 0
    /\ ~detector.enabled => C26_Seen = <<>>

C26_DropOldest ==
    [][/\ C26_QueueKeepsNewest'
       /\ (/\ detector.pc = "full" /\ detector'.pc = "retry"
           /\ detector.queue # <<>>) =>
              detector'.queue = Tail(detector.queue)
       /\ (detector.pc = "retry" /\ detector'.pc = "idle") =>
              detector'.queue = Append(detector.queue, detector.frame)
       /\ (/\ detector'.arrived # detector.arrived
           /\ ~detector.enabled \/ detector'.frame.size = 0) =>
              /\ detector'.queue = detector.queue
              /\ detector'.pc = "idle"]_vars

\* a frame was dropped from the full queue, the worker has received two
\* frames and the queue is full again
C26_Witness ==
    /\ detector.dropped # {}
    /\ Len(detector.received) >= 2
    /\ Len(detector.queue) = 2
    /\ detector.pc = "idle"
    /\ detector.last = MaxCameraFrames

\* C27: a plan that is not an object, has no contour, has a contour of
\* fewer than 3 points, or has a contour point that is not a list of two
\* elements is refused with an error: the plan in memory stays as it was,
\* load-json answers ok = false, and the pose and baselines of the
\* estimator are not reset.
C27_BadPoint(p) == p.kind # "list" \/ Len(p.items) # 2

C27_Invalid(payload) ==
    \/ payload.kind # "object"
    \/ payload.contour.kind = "null"
    \/ payload.contour.kind = "list" /\ Len(payload.contour.items) < 3
    \/ /\ payload.contour.kind = "list"
       /\ \E i \in 1..Len(payload.contour.items) :
              C27_BadPoint(payload.contour.items[i])

C27_InvalidPlanRefused ==
    [][(plans'.loads # plans.loads /\ C27_Invalid(plans'.request)) =>
          /\ plans'.plan = plans.plan
          /\ plans'.response.ok = FALSE
          /\ plans'.response.error # ""
          /\ odo' = odo
          /\ pose' = pose]_vars

\* a plan is loaded, the robot has moved, and a plan whose last contour
\* point is no pair has been refused
C27_Witness ==
    /\ plans.plan # None
    /\ plans.response.ok = FALSE
    /\ plans.request.kind = "object"
    /\ plans.request.contour.kind = "list"
    /\ Len(plans.request.contour.items) = 4
    /\ plans.request # plans.plan[1]
    /\ odo.x_mm # 0

\* C28: last_pose returns the x_mm, y_mm and theta_deg of the record
\* appended last since the last clear among those that have the three
\* keys, skipping later records that lack them, and nothing when there is
\* none, as right after clear; append never alters the earlier records.
C28_Posed == {i \in 1..Len(journal.lines) : PoseKeys \subseteq DOMAIN journal.lines[i]}

C28_Newest == CHOOSE i \in C28_Posed : \A j \in C28_Posed : j <= i

C28_LastPoseNewest ==
    [][/\ journal'.op = "last_pose" /\ journal'.ops # journal.ops =>
              /\ journal'.lines = journal.lines
              /\ journal'.read =
                     IF C28_Posed = {} THEN None
                     ELSE Some([x_mm |-> journal.lines[C28_Newest].x_mm,
                                y_mm |-> journal.lines[C28_Newest].y_mm,
                                theta_deg |-> journal.lines[C28_Newest].theta_deg])
       /\ (/\ journal'.op = "last_pose" /\ journal'.ops # journal.ops
           /\ journal.op = "clear") => journal'.read = None
       /\ journal'.op = "append" /\ journal'.ops # journal.ops =>
              /\ Len(journal'.lines) = Len(journal.lines) + 1
              /\ SubSeq(journal'.lines, 1, Len(journal.lines)) = journal.lines
       /\ journal'.op = "clear" /\ journal'.ops # journal.ops =>
              journal'.lines = <<>>]_vars

\* last_pose has skipped the last record, which lacks theta_deg, and
\* returned the pose of the update event before it
C28_Witness ==
    /\ journal.op = "last_pose"
    /\ Len(journal.lines) = 3
    /\ journal.lines[3].event = "partial"
    /\ journal.lines[2].event = "update"
    /\ journal.lines[1].event = "reset"
    /\ journal.read = Some([x_mm |-> 40 * PosScale, y_mm |-> 20 * PosScale,
                            theta_deg |-> 5 * AngScale])

\* C29: when a checksum-valid frame holds an unknown packet id, or a
\* known id whose data would run past the end of the payload, every
\* packet before it is decoded and applied, and the bytes from that
\* position on change no telemetry field.
C29_Apply(tel, packets) ==
    IF packets = <<>> THEN tel
    ELSE LET first == apply_sensor_packet(tel, packets[1][1], Tail(packets[1]))
         IN  IF Len(packets) = 1 THEN first
             ELSE apply_sensor_packet(first, packets[2][1], Tail(packets[2]))

C29_Before == {<<>>} \cup {<<a>> : a \in DecodePackets}
                    \cup {<<a, b>> : a, b \in DecodePackets}

C29_Bytes(packets) ==
    IF packets = <<>> THEN <<>>
    ELSE IF Len(packets) = 1 THEN packets[1]
    ELSE packets[1] \o packets[2]

C29_StopsAtBadPacket ==
    [][\A before \in C29_Before, cut \in DecodeStops \ {<<>>} :
          (now' = now /\ rd'.payload = C29_Bytes(before) \o cut) =>
              /\ telemetry' = C29_Apply(telemetry, before)
              /\ last_stream_update' = last_stream_update]_vars

\* the bumper packet in front of the unknown id 99 was applied, the cliff
\* packet behind it was not, and the timestamp is the one of construction
C29_Witness ==
    /\ telemetry.bump_right
    /\ ~telemetry.bump_left
    /\ ~telemetry.cliff_left
    /\ ~telemetry.wall_seen
    /\ telemetry.timestamp = InitTelemetry.timestamp
    /\ rd.payload = <<7, 1, 99, 0, 9, 1>>

\* C30: an update of the scalar path turns the heading first and then
\* moves along the new heading; from (0, 0, 0) the readings (0, 0),
\* (100, 0), (100, 90), (200, 90) of (distance, angle) give the poses
\* (0, 0, 0), (100, 0, 0), (100, 0, 90), (100, 100, 90).
C30_Dir(theta_deg) ==
    CASE theta_deg = 0 -> <<1, 0>>
      [] theta_deg = 90 -> <<0, 1>>
      [] theta_deg = -90 -> <<0, -1>>
      [] theta_deg = -180 -> <<-1, 0>>

C30_Turned(theta_deg) == ((theta_deg + 180) % 360) - 180

C30_Pose(o) == <<o.x_mm, o.y_mm, o.theta>>

C30_Scaled(x_mm, y_mm, theta_deg) ==
    <<x_mm * PosScale, y_mm * PosScale, theta_deg * AngScale>>

C30_Link(from, totals, reading, to) ==
    (/\ C30_Pose(odo) = from
     /\ <<odo.last_total_distance_mm, odo.last_total_angle_deg>> = totals
     /\ <<call'.tel.total_distance_mm, call'.tel.total_angle_deg>> = reading)
        => C30_Pose(odo') = to /\ pose' = snapshot(odo')

C30_HeadingThenTranslation ==
    [][(call'.op = "update_from_telemetry" /\ odo'.ops # odo.ops) =>
          /\ odo.last_total_distance_mm # None =>
                 LET d == call'.tel.total_distance_mm
                              - (odo.last_total_distance_mm[1] \div PosScale)
                     a == call'.tel.total_angle_deg
                              - (odo.last_total_angle_deg[1] \div AngScale)
                     heading == C30_Turned((odo.theta \div AngScale) + a)
                 IN  C30_Pose(odo') =
                         <<odo.x_mm + d * C30_Dir(heading)[1] * PosScale,
                           odo.y_mm + d * C30_Dir(heading)[2] * PosScale,
                           heading * AngScale>>
          /\ C30_Link(C30_Scaled(0, 0, 0), <<None, None>>, <<0, 0>>,
                      C30_Scaled(0, 0, 0))
          /\ C30_Link(C30_Scaled(0, 0, 0), <<Some(0), Some(0)>>, <<100, 0>>,
                      C30_Scaled(100, 0, 0))
          /\ C30_Link(C30_Scaled(100, 0, 0),
                      <<Some(100 * PosScale), Some(0)>>, <<100, 90>>,
                      C30_Scaled(100, 0, 90))
          /\ C30_Link(C30_Scaled(100, 0, 90),
                      <<Some(100 * PosScale), Some(90 * AngScale)>>,
                      <<200, 90>>, C30_Scaled(100, 100, 90))]_vars

\* the fourth update has moved the robot from (100, 0) to (100, 100)
\* along the heading of 90 degrees
C30_Witness ==
    /\ odo.ops = 4
    /\ C30_Pose(odo) = C30_Scaled(100, 100, 90)
    /\ odo.last_total_distance_mm = Some(200 * PosScale)
    /\ odo.last_total_angle_deg = Some(90 * AngScale)
    /\ pose.last_delta_distance_mm = 100 * PosScale
    /\ pose.last_delta_angle_deg = 0

\* C31: in every iteration of the telemetry push loop the watchdog is
\* called before the snapshot is fetched and sent; a watchdog call that
\* raises does not stop the loop, the snapshot of that iteration is still
\* sent and the next iteration follows; only a disconnect of the
\* subscriber ends the loop.
C31_WatchdogFirst ==
    /\ push.pc \in {"snapshot", "send", "sleep"} => push.watched = push.iter
    /\ push.sent <= push.watched
    /\ push.pc = "watchdog" => push.watched = push.iter - 1
    /\ push.pc = "sleep" => push.sent = push.iter
    /\ push.pc = "ended" => push.disconnected

C31_WatchdogNeverStopsLoop ==
    [][/\ C31_WatchdogFirst'
       /\ push.pc = "watchdog" /\ push' # push =>
              push'.pc = "snapshot" /\ push'.iter = push.iter
       /\ push.pc = "snapshot" /\ push' # push =>
              /\ push'.pc = "send"
              /\ push'.raised = push.raised
              /\ snap'.tel = get_telemetry_snapshot(Driver)
       /\ push.pc = "send" /\ push' # push =>
              \/ push'.pc = "sleep" /\ push'.sent = push.iter
              \/ push'.pc = "ended" /\ push'.disconnected
       /\ push.pc = "sleep" /\ push' # push =>
              push'.pc = "watchdog" /\ push'.iter = push.iter + 1]_vars

\* the watchdog raised in the second iteration, whose snapshot was sent,
\* and the third iteration has begun
C31_Witness ==
    /\ push.iter = 3
    /\ push.pc = "watchdog"
    /\ push.sent = 2
    /\ push.raised = 2
    /\ ~push.disconnected

\* C32: command writes are atomic: when threads issue commands at the
\* same time, the bytes of one command are written contiguously and are
\* never interleaved on the serial link with the bytes of another.
C32_BytesOf(id) ==
    LET at == {i \in 1..Len(writers.link) : writers.link[i].call = id}
    IN  IF at = {} THEN <<>>
        ELSE LET first == CHOOSE i \in at : \A j \in at : i <= j
             IN  [k \in 1..Cardinality(at) |-> writers.link[first + k - 1].byte]

C32_WritesAtomic ==
    /\ \A i, k \in 1..Len(writers.link) :
           (i < k /\ writers.link[i].call = writers.link[k].call) =>
               \A j \in i..k : writers.link[j].call = writers.link[i].call
    /\ \A t \in Threads :
           /\ writers.result[t] = "returned" =>
                  C32_BytesOf(writers.id[t]) = writers.cmd[t]
           /\ writers.pc[t] = "writing" =>
                  /\ writers.lock = t
                  /\ C32_BytesOf(writers.id[t]) =
                         SubSeq(writers.cmd[t], 1, writers.pos[t])

\* a thread waited with its subscription while the other wrote a drive
\* command, and both commands are on the link whole
C32_Witness ==
    /\ Len(writers.link) = 8
    /\ writers.result["a"] = "returned"
    /\ writers.result["b"] = "returned"
    /\ writers.cmd["a"] = <<137, 0, 100, 128, 0>>
    /\ writers.cmd["b"] = <<148, 1, 7>>
    /\ writers.id["a"] = 1
    /\ writers.id["b"] = 2

\* C33: after any sequence of applied packets total_distance_mm is the
\* sum of the signed 16-bit increments of all packets 19 applied so far
\* and total_angle_deg that of all packets 20, while distance_mm and
\* angle_deg hold the latest increment only; close, reconnect and stream
\* restart neither reset nor wrap the totals.
C33_Last(increment, field) ==
    IF increment = <<>> THEN field = 0 ELSE field = increment[Len(increment)]

C33_TotalsAreSums ==
    /\ telemetry.total_distance_mm = SumSeq(increments.distance)
    /\ telemetry.total_angle_deg = SumSeq(increments.angle)
    /\ C33_Last(increments.distance, telemetry.distance_mm)
    /\ C33_Last(increments.angle, telemetry.angle_deg)
    /\ \A k \in 1..Len(increments.distance) :
           increments.distance[k] \in -32768..32767

\* three increments of 32767 mm, the link closed and opened again and the
\* stream restarted in between: the total is beyond the 16-bit range
C33_Witness ==
    /\ increments.distance = <<32767, 32767, 32767>>
    /\ telemetry.total_distance_mm = 98301
    /\ telemetry.distance_mm = 32767
    /\ telemetry.state = "disconnected"
    /\ serial_open
    /\ rd.pc = "read"
    /\ last_stream_start > 1

\* C34: the result of the frame parser does not depend on how the byte
\* stream is cut into chunks: whenever the reader is back at its read,
\* the frames applied (in order), the telemetry fields (timestamp aside)
\* and the unconsumed buffer are those of one pass over all the bytes read
\* so far.
C34_Whole ==
    consume_stream_buffer(SubSeq(rx.bytes, 1, rx.pos),
                          [InitTelemetry EXCEPT !.roomba_connected = TRUE],
                          <<>>, 0)

C34_ChunkingIndependent ==
    (rd.pc = "read" /\ serial_open) =>
        /\ rx.applied = C34_Whole.applied
        /\ stream_buffer = C34_Whole.buffer
        /\ [telemetry EXCEPT !.timestamp = 0]
               = [C34_Whole.telemetry EXCEPT !.timestamp = 0]

\* all bytes of two frames read in chunks that cut a frame, both applied
C34_Witness ==
    /\ rd.pc = "read"
    /\ rx.bytes = FrameSensors \o FrameCliff
    /\ rx.pos = Len(rx.bytes)
    /\ rx.applied = <<FrameSensors, FrameCliff>>
    /\ stream_buffer = <<>>
    /\ telemetry.cliff_left /\ telemetry.wall_seen

\* C35: across any interleaving of start_sensor_stream,
\* ensure_sensor_stream, stop_sensor_stream and close, a stop whose join
\* times out and a start that clears the stop flag included, at most one
\* thread is inside the reader loop.
C35_InLoop == {k \in 1..Len(readers.pc) : readers.pc[k] # "done"}

C35_AtMostOneReader == Cardinality(C35_InLoop) <= 1

\* the same, for the threads blocked in serial.read only: each of them has
\* passed the loop test
C35_AtMostOneReading ==
    Cardinality({k \in 1..Len(readers.pc) : readers.pc[k] = "reading"}) <= 1

\* C36: after any sequence of reset, update_from_telemetry and
\* apply_external_pose with a sink that never fails, x_mm, y_mm and
\* theta_deg (modulo 360) of the last event given to the sink equal the
\* estimator's pose; a call that changes the pose (the heading taken modulo
\* 360) emits exactly one event, which carries the pose after the validity
\* snap; no call emits more than one; an update that leaves the estimator
\* as it was emits none; and a reset to the journal's last pose reproduces
\* the pose.  (An update on the scalar path whose step a wall blocks
\* entirely moves the baselines and writes an event with the unchanged
\* pose.)
C36_Pose(o) ==
    [x_mm |-> o.x_mm, y_mm |-> o.y_mm, theta_deg |-> o.theta % (360 * AngScale)]

C36_EventPose(line) ==
    [x_mm |-> line.x_mm, y_mm |-> line.y_mm,
     theta_deg |-> line.theta_deg % (360 * AngScale)]

\* the estimator without the records of the operation in progress
C36_Core(o) ==
    [o EXCEPT !.history = <<>>, !.run = NoRun, !.enc = [used |-> FALSE], !.ops = 0]

C36_LastEventIsPose ==
    IF journal.lines = <<>>
    THEN C36_Pose(odo) = [x_mm |-> 0, y_mm |-> 0, theta_deg |-> 0]
    ELSE /\ C36_EventPose(journal.lines[Len(journal.lines)]) = C36_Pose(odo)
         /\ last_pose(journal.lines) # None
         /\ C36_EventPose(last_pose(journal.lines)[1]) = C36_Pose(odo)

C36_Emitted == Len(journal'.lines) - Len(journal.lines)

C36_EventsFollowPose ==
    [][/\ C36_LastEventIsPose'
       /\ C36_Emitted \in {0, 1}
       /\ C36_Pose(odo') # C36_Pose(odo) => C36_Emitted = 1
       /\ journal'.op \in {"reset", "external_pose", "restore"} => C36_Emitted = 1
       /\ (journal'.op = "update" /\ C36_Core(odo') = C36_Core(odo))
              => C36_Emitted = 0
       /\ journal'.op = "restore" => C36_Pose(odo') = C36_Pose(odo)]_vars

\* a reset to a pose outside the room that the validity snap moved, its
\* event carrying the snapped pose, then an arc on the encoder path, then
\* the restore from the journal
C36_Witness ==
    /\ journal.op = "restore"
    /\ Len(journal.lines) = 3
    /\ journal.lines[3].event = "reset"
    /\ journal.lines[1].event = "reset"
    /\ journal.lines[1].x_mm \notin {s[1] : s \in EventStarts}
    /\ journal.lines[2].event = "update"
    /\ journal.lines[2].source = "encoders"
    /\ journal.lines[2].theta_deg # 0
    /\ C36_EventPose(journal.lines[2]) = C36_Pose(odo)

\* C37: a frame that passes the checksum but whose payload is cut short by
\* an unknown packet id or a truncated packet refreshes neither the
\* telemetry timestamp nor the time of the last valid frame, although it
\* updates the fields of the packets before the cut; so the watchdog
\* counts the stream of a robot that keeps sending such frames as stale and
\* re-issues the subscription once max_stale_sec and the cooldown have
\* passed.
C37_CutFrameStep ==
    /\ rx'.at = now
    /\ rd'.payload \in CutShortPayloads
    /\ watchdog' = watchdog
    /\ \/ rx'.at # rx.at
       \/ telemetry' # telemetry
       \/ rd' # rd
       \/ last_stream_update' # last_stream_update

C37_CutFramesLeaveStreamStale ==
    [][/\ C37_CutFrameStep =>
             /\ telemetry'.timestamp = telemetry.timestamp
             /\ last_stream_update' = last_stream_update
             /\ telemetry'.bump_right = (rd'.payload[2] % 2 = 1)
             /\ telemetry'.bump_left = ((rd'.payload[2] \div 2) % 2 = 1)
       /\ (/\ watchdog'.turn # watchdog.turn
           /\ serial_open
           /\ rd.payload \in CutShortPayloads
           /\ C18_Quiet > MAX_STALE_SEC
           /\ now - last_stream_start >= RESTART_COOLDOWN_SEC)
            => /\ wire' = << <<CMD_STREAM, Len(stream_packet_ids)>>
                               \o stream_packet_ids >>
               /\ last_stream_start' = now]_vars

\* a valid frame, then cut frames that set the right bumper, the last of
\* them in the very second in which the watchdog (the reader thread alive)
\* re-issues the subscription because the last valid frame is more than
\* max_stale_sec old
C37_Witness ==
    /\ wire = << <<CMD_STREAM, Len(stream_packet_ids)>> \o stream_packet_ids >>
    /\ watchdog.issued # <<>> /\ watchdog.issued[1] = now
    /\ rd.pc = "read"
    /\ rd.payload = <<7, 1, 99>>
    /\ rx.at = now
    /\ telemetry.bump_right
    /\ last_stream_update > 0
    /\ now - last_stream_update > MAX_STALE_SEC
    /\ telemetry.timestamp = last_stream_update

\* C38: for any geometry, start pose, heading and desired distance the
\* motion clamp terminates, each iteration of its loop either consuming one
\* step length (the smaller of max_step and the distance remaining) or
\* ending the loop; the length of the (dx, dy) it returns never exceeds
\* the desired distance in absolute value; and the signed magnitude it
\* returns is >= 0 for a forward request and <= 0 for a reverse one.
\* Lengths are compared up to the resolution of the model's arithmetic:
\* cos and sin are held in 1/TrigScale, so that the unit vector of a
\* heading is up to 1/TrigScale longer than 1, and each step is rounded to
\* 1/PosScale mm.
C38_Desired ==
    (call'.tel.total_distance_mm * PosScale) - odo.last_total_distance_mm[1]

C38_Slack(run) ==
    (Abs(C38_Desired) \div TrigScale) + 1 + (IF run.planned THEN run.steps ELSE 0)

C38_LoopConsumed(run) ==
    run.planned =>
        /\ run.distance = Abs(C38_Desired)
        /\ run.remaining >= 0
        /\ run.distance - run.remaining
               = Min(run.steps * max_step_of(odo.robot_radius_mm), run.distance)
        /\ run.stopped \/ run.remaining = 0
        /\ Len(run.path) = run.steps + 1

C38_ClampBounded ==
    [][(/\ odo'.ops # odo.ops
        /\ call'.op = "update_from_telemetry"
        /\ odo.last_total_distance_mm # None
        /\ odo.last_total_angle_deg # None)
          => LET dx == odo'.x_mm - odo.x_mm
                 dy == odo'.y_mm - odo.y_mm
                 d == odo'.last_delta_distance_mm
                 longest == Abs(C38_Desired) + C38_Slack(odo'.run)
             IN  /\ (dx * dx) + (dy * dy) <= longest * longest
                 /\ Abs(d) <= longest
                 /\ C38_Desired >= 0 => d >= 0
                 /\ C38_Desired <= 0 => d <= 0
                 /\ C38_LoopConsumed(odo'.run)]_vars

\* a reverse request inside a plan that the loop cut short after a first
\* step, the magnitude returned negative
C38_Witness ==
    /\ call.op = "update_from_telemetry"
    /\ odo.run.planned
    /\ odo.run.stopped
    /\ odo.run.steps >= 1
    /\ odo.run.remaining > 0
    /\ odo.last_delta_distance_mm < 0

\* C39: if the reader thread has ended because a serial read raised while
\* the link stays open, and a subscriber keeps running the push loop, then
\* eventually the subscription is re-issued and a reader thread is alive
\* again, the re-issue coming restart_cooldown_sec after the last
\* subscription or later; and a thread inside the reader loop leaves it
\* once the stop flag is set or the link is closed (for as long as they
\* stay so).
C39_ReaderDown ==
    /\ readers.open
    /\ readers.thread # 0
    /\ ~thread_alive(readers)

C39_Revival ==
    (readers.open /\ ~thread_alive(readers) /\ thread_alive(readers'))
        => /\ last_stream_start' = now
           /\ now - last_stream_start >= RESTART_COOLDOWN_SEC
           /\ readers'.thread = Len(readers.pc) + 1

\* the k-th thread created is inside the reader loop
C39_InLoop(k) ==
    IF k <= Len(readers.pc) THEN readers.pc[k] # "done" ELSE FALSE

====
